---- MODULE Spec2Model ----
(***************************************************************************)
(* Model of the quarterback data pipeline of qb_rankings: the merge engines *)
(* (preprocess.merge_all, qb_etl.extract_season_all), the two-pass merge of *)
(* notebooks/qbrank.py, the salary-source cleaner and the multi-season      *)
(* drivers.  Text is modelled as sequences of one-character strings so     *)
(* that ordering, splitting and stripping are computed, not assumed.       *)
(***************************************************************************)
EXTENDS Integers, Sequences, FiniteSets, TLC

VARIABLES
    engine,     \* which merge function runs: "merge_all", "etl" or "merge_pfr"
    base,       \* df_list[0] / pfr_df: the base population table
    merged,     \* merged_df
    lastSrc,    \* the table joined by the latest merge step
    lastOn,     \* the key columns of the latest merge step
    pre,        \* row count before the latest merge step
    i,          \* merge_all, merge_pfr: loop index; etl: number of joins done
    status,     \* "run", "returned" or "raised"
    result,     \* the table handed back to the caller
    year,       \* extract_season_all's / prep_pfr_season's argument
    \* the two-pass merge of notebooks/qbrank.py
    pfr_df,             \* base population, all seasons
    salary_cap_df,      \* salary source, all seasons
    merged_df1,         \* first merge attempt
    merge_check_df1,    \* sizes of its _merge groups
    left_only,          \* keys of the base rows the first attempt did not link
    pfr_subset_df,      \* the base rows of those keys
    merged_df2,         \* second merge attempt
    merged_df,          \* both attempts stacked
    merge_check_df,     \* sizes of its _merge groups
    tpc,                \* the statement the two-pass merge is at
    tstatus,            \* "run", "done" or "raised"
    \* two runs of qb_etl.extract_season_otc on the same downloaded rows
    otc_raw,            \* the downloaded table
    otc_raw2,           \* the same rows in another order
    otc_clean,             \* what the first run returns
    otc_clean2,            \* what the second run returns
    otc_done,           \* the runs that have returned
    \* the multi-season drivers: qb_etl.main and download.get_all_seasons
    driver,             \* "etl", "download", "notebook" or "preprocess"
    year_list,          \* range(bgn_yr, end_yr + 1)
    yi,                 \* position in year_list of the season at hand
    pfr_seen,           \* what each season gave: the base table (etl), dfs (notebook), the files (preprocess)
    df_list,            \* the per-season results collected so far; preprocess: file orders, esf_df
    seasons_df,         \* etl: the frame get_all_seasons returns
    db,                 \* etl: the rows of the qb_season table
    csv,                \* download: the files written, in order
    fetched,            \* the downloads attempted so far: source, year, outcome
    sstatus,            \* "run", "export", "returned", "loaded" or "raised"
    \* one call of a cleaning helper: fix_player_name, fix_team_name, calc_qb_wins
    fn,                 \* the helper called
    variant,            \* the file its definition is taken from
    arg,                \* the argument(s)
    ret,                \* the value returned
    fstatus,            \* "call", "returned" or "raised"
    ret2,               \* fix_player_name applied to ret
    fstatus2            \* "none", "returned" or "raised"

mergeVars ==
    <<engine, base, merged, lastSrc, lastOn, pre, i, status, result, year>>

twoPassVars ==
    <<pfr_df, salary_cap_df, merged_df1, merge_check_df1, left_only,
      pfr_subset_df, merged_df2, merged_df, merge_check_df, tpc, tstatus>>

otcVars == <<otc_raw, otc_raw2, otc_clean, otc_clean2, otc_done>>

seasonVars ==
    <<driver, year_list, yi, pfr_seen, df_list, seasons_df, db, csv, fetched, sstatus>>

cleanVars == <<fn, variant, arg, ret, fstatus, ret2, fstatus2>>

vars == <<mergeVars, twoPassVars, otcVars, seasonVars, cleanVars>>

(***************************************************************************)
(* Bounds                                                                  *)
(***************************************************************************)
MaxRows == 2

(***************************************************************************)
(* Text                                                                    *)
(***************************************************************************)
\* the characters the model uses, in ASCII order
AsciiOrder ==
    << " ", "$", "*", "+", ",", "-", ".",
       "0", "1", "2", "3", "4", "5", "6", "7", "8", "9",
       "A", "B", "C", "D", "E", "F", "G", "H", "I", "J", "K", "L", "M",
       "N", "O", "P", "Q", "R", "S", "T", "U", "V", "W", "X", "Y", "Z",
       "a", "b", "c", "d", "e", "f", "g", "h", "i", "j", "k", "l", "m",
       "n", "o", "p", "q", "r", "s", "t", "u", "v", "w", "x", "y", "z" >>

Code(c) == CHOOSE k \in 1..Len(AsciiOrder) : AsciiOrder[k] = c

\* Python's str < str: lexicographic by code point, a proper prefix is smaller
StrLess(a, b) ==
    \E k \in 1..((IF Len(a) <= Len(b) THEN Len(a) ELSE Len(b)) + 1) :
        /\ \A j \in 1..(k - 1) : a[j] = b[j]
        /\ \/ k > Len(a) /\ k <= Len(b)
           \/ k <= Len(a) /\ k <= Len(b) /\ Code(a[k]) < Code(b[k])

\* the position of the first occurrence of character c in s, 0 when there is none
FindChar(s, c) ==
    IF \E k \in 1..Len(s) : s[k] = c
    THEN CHOOSE k \in 1..Len(s) : s[k] = c /\ \A j \in 1..(k - 1) : s[j] # c
    ELSE 0

\* Python's s.split(sep) for a one-character separator
RECURSIVE Split(_, _)
Split(s, sep) ==
    IF FindChar(s, sep) = 0 THEN <<s>>
    ELSE <<SubSeq(s, 1, FindChar(s, sep) - 1)>>
            \o Split(SubSeq(s, FindChar(s, sep) + 1, Len(s)), sep)

\* rows compared on the columns `by`, the first column most significant; one
\* cell against another of the same column: years are numbers, the rest text
RECURSIVE RowLess(_, _, _)
RowLess(r, s, by) ==
    IF by = <<>> THEN FALSE
    ELSE IF r[Head(by)] = s[Head(by)] THEN RowLess(r, s, Tail(by))
    ELSE IF Head(by) = "year" THEN r[Head(by)] < s[Head(by)]
    ELSE StrLess(r[Head(by)], s[Head(by)])

(***************************************************************************)
(* Tables                                                                  *)
(***************************************************************************)
NULL == <<>>            \* NaN / missing cell; a present cell v is <<v>>

SeqsUpTo(S, n) == UNION { [1..k -> S] : k \in 0..n }

\* pandas `on=[...]`: the tuple of a row's key columns
KeyOf(r, on) == [k \in 1..Len(on) |-> r[on[k]]]

KeysOf(t, on) == { KeyOf(t[k], on) : k \in 1..Len(t) }

HasDupKey(t, on) ==
    \E a, b \in 1..Len(t) : a # b /\ KeyOf(t[a], on) = KeyOf(t[b], on)

\* one left row of a left join: one output row per matching right row, in the
\* right table's order, or a single row with the right columns missing
JoinRow(l, right, on) ==
    LET ms == SelectSeq(right, LAMBDA r : KeyOf(r, on) = KeyOf(l, on))
    IN  IF ms = <<>>
        THEN << [l EXCEPT !.cols = Append(@, NULL)] >>
        ELSE [k \in 1..Len(ms) |-> [l EXCEPT !.cols = Append(@, ms[k].val)]]

\* a right join keeps the right table's keys instead of the left's
LeftJoin_RightJoin(left, right, on) ==
    [k \in 1..Len(right) |->
        LET ls == SelectSeq(left, LAMBDA l : KeyOf(l, on) = KeyOf(right[k], on))
        IN  IF ls = <<>>
            THEN [c \in DOMAIN right[k] \ {"val"} |-> right[k][c]]
                    @@ [id |-> 0, cols |-> <<right[k].val>>]
            ELSE [ls[1] EXCEPT !.cols = Append(@, right[k].val)]]

\* a join that silently keeps only the first matching right row
LeftJoin_FirstMatch(left, right, on) ==
    [k \in 1..Len(left) |-> JoinRow(left[k], right, on)[1]]

\* pd.merge(left, right, how="left", on=on)
RECURSIVE LeftJoin(_, _, _)
LeftJoin(left, right, on) ==
    IF left = <<>> THEN <<>>
    ELSE JoinRow(Head(left), right, on) \o LeftJoin(Tail(left), right, on)

\* assert(pre_merge_shape[0] == post_merge_shape[0])
RowCountUnchanged_NoCheck(before, after) == TRUE

RowCountUnchanged(before, after) == before = after

\* insertion of a row into a table sorted on `by`, after its equals (stable)
RECURSIVE InsertSorted(_, _, _)
InsertSorted(t, r, by) ==
    IF t = <<>> THEN <<r>>
    ELSE IF RowLess(r, Head(t), by)
         THEN <<r>> \o t
         ELSE <<Head(t)>> \o InsertSorted(Tail(t), r, by)

\* the rows left in the order they came
SortValues_AsGiven(t, by) == t

RECURSIVE SortValues(_, _)
SortValues(t, by) ==
    IF t = <<>> THEN <<>>
    ELSE InsertSorted(SortValues(SubSeq(t, 1, Len(t) - 1), by), t[Len(t)], by)

IsSorted(t, by) ==
    \A k \in 1..(Len(t) - 1) : ~RowLess(t[k + 1], t[k], by)

(***************************************************************************)
(* Inputs of the merge engines                                             *)
(***************************************************************************)
PlayerA == <<"A", "X">>
PlayerB == <<"B", "X">>
TeamNE  == <<"N", "E">>
TeamTB  == <<"T", "B">>

\* merge_all joins on player, team, year; extract_season_all on player, team
\* and then on player alone
MergeAllOn == <<"player", "team", "year">>
EtlOn      == <<"player", "team">>
EsfOn      == <<"player">>
SortBy     == <<"player", "year", "team">>

\* the keys the inputs are drawn from: one key and its neighbours that differ
\* from it in exactly one column
MergeAllKeys ==
    { [player |-> PlayerA, team |-> TeamNE, year |-> 2020],
      [player |-> PlayerB, team |-> TeamNE, year |-> 2020],
      [player |-> PlayerA, team |-> TeamTB, year |-> 2020],
      [player |-> PlayerA, team |-> TeamNE, year |-> 2019] }

EtlKeys ==
    { [player |-> PlayerA, team |-> TeamNE],
      [player |-> PlayerB, team |-> TeamNE],
      [player |-> PlayerA, team |-> TeamTB] }

Years == {2019, 2020}

\* a base table: row k carries its position as the stand-in for its own columns
BaseTable(s) == [k \in DOMAIN s |-> s[k] @@ [id |-> k, cols |-> <<>>]]

\* a joined table: row k carries the value k in its metric column, as the cell <<k>>
SrcTable(s) == [k \in DOMAIN s |-> s[k] @@ [val |-> <<k>>]]

SrcTables(keys) == { SrcTable(s) : s \in SeqsUpTo(keys, MaxRows) }

(***************************************************************************)
(* The parts of the state a run does not use stay as they are here         *)
(***************************************************************************)
NoCounts == [left_only |-> 0, both |-> 0]

TwoPassIdle ==
    /\ pfr_df = <<>>
    /\ salary_cap_df = <<>>
    /\ merged_df1 = <<>>
    /\ merge_check_df1 = NoCounts
    /\ left_only = <<>>
    /\ pfr_subset_df = <<>>
    /\ merged_df2 = <<>>
    /\ merged_df = <<>>
    /\ merge_check_df = NoCounts
    /\ tpc = "idle"
    /\ tstatus = "idle"

OtcIdle ==
    /\ otc_raw = <<>>
    /\ otc_raw2 = <<>>
    /\ otc_clean = <<>>
    /\ otc_clean2 = <<>>
    /\ otc_done = {}

SeasonsIdle ==
    /\ driver = "none"
    /\ year_list = <<>>
    /\ yi = 0
    /\ pfr_seen = <<>>
    /\ df_list = <<>>
    /\ seasons_df = <<>>
    /\ db = <<>>
    /\ csv = <<>>
    /\ fetched = <<>>
    /\ sstatus = "idle"

CleanIdle ==
    /\ fn = "none"
    /\ variant = "none"
    /\ arg = <<>>
    /\ ret = <<>>
    /\ fstatus = "idle"
    /\ ret2 = <<>>
    /\ fstatus2 = "idle"

MergeIdle ==
    /\ engine = "none"
    /\ base = <<>>
    /\ merged = <<>>
    /\ lastSrc = <<>>
    /\ lastOn = <<>>
    /\ pre = 0
    /\ i = 0
    /\ status = "idle"
    /\ result = <<>>
    /\ year = 0

(***************************************************************************)
(* preprocess.merge_all                                                    *)
(***************************************************************************)
\* main hands merge_all [pfr_clean, fo_clean, otc_clean]: two joined tables
MergeAllSources == 2

\* one pass of the loop over df_list[1:]
MergeAllStep ==
    /\ engine = "merge_all" /\ status = "run" /\ i <= MergeAllSources
    /\ \E src \in SrcTables(MergeAllKeys) :
          LET joined == LeftJoin(merged, src, MergeAllOn)
          IN  /\ lastSrc' = src
              /\ lastOn' = MergeAllOn
              /\ pre' = Len(merged)
              /\ merged' = joined
              /\ IF RowCountUnchanged(Len(merged), Len(joined))
                 THEN i' = i + 1 /\ status' = "run"
                 ELSE i' = i /\ status' = "raised"
    /\ UNCHANGED <<engine, base, result, year>>
    /\ UNCHANGED <<twoPassVars, otcVars, seasonVars, cleanVars>>

\* after the loop: reorder the columns, sort, return
MergeAllReturn ==
    /\ engine = "merge_all" /\ status = "run" /\ i > MergeAllSources
    /\ result' = SortValues(merged, SortBy)
    /\ status' = "returned"
    /\ UNCHANGED <<engine, base, merged, lastSrc, lastOn, pre, i, year>>
    /\ UNCHANGED <<twoPassVars, otcVars, seasonVars, cleanVars>>

(***************************************************************************)
(* qb_etl.extract_season_all, from the cleaned tables on                   *)
(***************************************************************************)
EtlJoin(src, on) ==
    LET joined == LeftJoin(merged, src, on)
    IN  /\ lastSrc' = src
        /\ lastOn' = on
        /\ pre' = Len(merged)
        /\ merged' = joined
        /\ IF RowCountUnchanged(Len(merged), Len(joined))
           THEN i' = i + 1 /\ status' = "run"
           ELSE i' = i /\ status' = "raised"

EtlMergeFo ==
    /\ engine = "etl" /\ status = "run" /\ i = 0
    /\ \E fo_df \in SrcTables(EtlKeys) : EtlJoin(fo_df, EtlOn)
    /\ UNCHANGED <<engine, base, result, year>>
    /\ UNCHANGED <<twoPassVars, otcVars, seasonVars, cleanVars>>

EtlMergeOtc ==
    /\ engine = "etl" /\ status = "run" /\ i = 1
    \* what extract_season_otc can return: groupby leaves one row per key, ordered
    /\ \E otc_df \in { t \in SrcTables(EtlKeys) :
                          ~HasDupKey(t, EtlOn) /\ IsSorted(t, EtlOn) } :
          EtlJoin(otc_df, EtlOn)
    /\ UNCHANGED <<engine, base, result, year>>
    /\ UNCHANGED <<twoPassVars, otcVars, seasonVars, cleanVars>>

EtlMergeEsf ==
    /\ engine = "etl" /\ status = "run" /\ i = 2
    /\ \E esf_df \in SrcTables({ [player |-> PlayerA], [player |-> PlayerB] }) :
          EtlJoin(esf_df, EsfOn)
    /\ UNCHANGED <<engine, base, result, year>>
    /\ UNCHANGED <<twoPassVars, otcVars, seasonVars, cleanVars>>

\* merged_df["year"] = year; return merged_df
EtlReturn ==
    /\ engine = "etl" /\ status = "run" /\ i = 3
    /\ result' = [k \in DOMAIN merged |-> merged[k] @@ [year |-> year]]
    /\ status' = "returned"
    /\ UNCHANGED <<engine, base, merged, lastSrc, lastOn, pre, i, year>>
    /\ UNCHANGED <<twoPassVars, otcVars, seasonVars, cleanVars>>

(***************************************************************************)
(* notebooks/qbrank.py: extract_pfr_all, merge_pfr, prep_pfr_season        *)
(***************************************************************************)
\* the keys of dfs, in the order extract_pfr_all inserts them
PfrPages ==
    <<"passing", "rushing", "air_yards", "accuracy", "pressure", "play_type">>

\* every table is fetched in every season
PfrPresent_Always(key, yr) == TRUE

\* dfs[key] is a table, not None; adv_passing_dict gives the first season of
\* each advanced table
PfrPresent(key, yr) ==
    LET adv_passing_dict == [air_yards |-> 2018, accuracy |-> 2018,
                             pressure |-> 2018, play_type |-> 2019]
    IN  key \notin DOMAIN adv_passing_dict \/ yr >= adv_passing_dict[key]

PfrOn == <<"player", "tm">>

PfrKeys ==
    { [player |-> PlayerA, tm |-> TeamNE],
      [player |-> PlayerA, tm |-> TeamTB] }

PfrYears == {2017, 2018, 2019}

\* validate='one_to_one': the keys are unique in the left and in the right table
OneToOne(left, right, on) == ~HasDupKey(left, on) /\ ~HasDupKey(right, on)

\* one pass of merge_pfr's loop over dfs.keys(), after the base table
MergePfrStep ==
    /\ engine = "merge_pfr" /\ status = "run" /\ i <= Len(PfrPages)
    /\ IF ~PfrPresent(PfrPages[i], year)
       THEN /\ i' = i + 1
            /\ UNCHANGED <<merged, lastSrc, lastOn, pre, status>>
       ELSE \E df \in SrcTables(PfrKeys) :
              /\ lastSrc' = df
              /\ lastOn' = PfrOn
              /\ pre' = Len(merged)
              /\ IF OneToOne(merged, df, PfrOn)
                 THEN /\ merged' = LeftJoin(merged, df, PfrOn)
                      /\ i' = i + 1
                      /\ status' = "run"
                 ELSE /\ status' = "raised"
                      /\ UNCHANGED <<merged, i>>
    /\ UNCHANGED <<engine, base, result, year>>
    /\ UNCHANGED <<twoPassVars, otcVars, seasonVars, cleanVars>>

\* merge_pfr returns; prep_pfr_season sets the season column and returns
MergePfrReturn ==
    /\ engine = "merge_pfr" /\ status = "run" /\ i > Len(PfrPages)
    /\ result' = [k \in DOMAIN merged |-> merged[k] @@ [season |-> year]]
    /\ status' = "returned"
    /\ UNCHANGED <<engine, base, merged, lastSrc, lastOn, pre, i, year>>
    /\ UNCHANGED <<twoPassVars, otcVars, seasonVars, cleanVars>>

InitMerge ==
    /\ engine \in {"merge_all", "etl", "merge_pfr"}
    /\ year \in CASE engine = "etl" -> Years
                [] engine = "merge_pfr" -> PfrYears
                [] OTHER -> {0}
    /\ \E s \in SeqsUpTo(CASE engine = "merge_all" -> MergeAllKeys
                          [] engine = "etl" -> EtlKeys
                          [] OTHER -> PfrKeys, MaxRows) : base = BaseTable(s)
    /\ merged = base
    /\ lastSrc = <<>>
    /\ lastOn = <<>>
    /\ pre = Len(base)
    /\ i = CASE engine = "merge_all" -> 1
             [] engine = "etl" -> 0
             [] OTHER -> 2
    /\ status = "run"
    /\ result = <<>>
    /\ TwoPassIdle
    /\ OtcIdle
    /\ SeasonsIdle
    /\ CleanIdle

NextMerge ==
    \/ MergeAllStep
    \/ MergeAllReturn
    \/ EtlMergeFo
    \/ EtlMergeOtc
    \/ EtlMergeEsf
    \/ EtlReturn
    \/ MergePfrStep
    \/ MergePfrReturn

SpecMerge == InitMerge /\ [][NextMerge]_vars

(***************************************************************************)
(* Claims about the merge engines                                          *)
(***************************************************************************)
\* the (player, team, season) keys of the base population
BaseSeasonKeys ==
    CASE engine = "merge_all" -> KeysOf(base, MergeAllOn)
      [] engine = "etl" ->
            { <<base[k].player, base[k].team, year>> : k \in DOMAIN base }
      [] OTHER ->
            { <<base[k].player, base[k].tm, year>> : k \in DOMAIN base }

ResultSeasonKeys ==
    IF engine = "merge_pfr"
    THEN KeysOf(result, <<"player", "tm", "season">>)
    ELSE KeysOf(result, MergeAllOn)

\* the latest join met a key of the joined table that occurs twice in it and
\* is the key of a base row
DupKeyMatchesBase ==
    \E a, b \in DOMAIN lastSrc :
        /\ a # b
        /\ KeyOf(lastSrc[a], lastOn) = KeyOf(lastSrc[b], lastOn)
        /\ KeyOf(lastSrc[a], lastOn) \in KeysOf(base, lastOn)

\* C1: whenever merge_all or extract_season_all returns a table, the table has
\* exactly as many rows as the base table.
C1_RowCountInvariance ==
    status = "returned" => Len(result) = Len(base)

C1_Witness ==
    /\ status = "returned"
    /\ Len(base) >= 2
    /\ \E k \in DOMAIN result : result[k].cols[1] # NULL
    /\ \E k \in DOMAIN result : result[k].cols[1] = NULL

\* C2: a join step that changes the row count raises at that step: the merge is
\* in the raised state with nothing returned, and no later step changes the
\* merged table or advances the join counter.
C2_FanOutRaisesAtStep ==
    /\ [](Len(merged) # pre => status = "raised" /\ result = <<>>)
    /\ [][Len(merged) # pre =>
            merged' = merged /\ i' = i /\ status' = status /\ result' = result]_vars

C2_Witness ==
    /\ Len(merged) > pre
    /\ status = "raised"
    /\ engine = "etl"
    /\ i = 0

\* C3 (as stated): a joined table with two rows of the same join key always
\* makes the merge raise, whether or not the key matches a base row.
C3_AnyDuplicateAborts ==
    (lastSrc # <<>> /\ HasDupKey(lastSrc, lastOn)) => status = "raised"

\* C3 (amended): in merge_all and extract_season_all a join step raises exactly
\* when the joined table holds a duplicated join key that is the key of a base
\* row; a duplicated key that matches no base row goes undetected and the merge
\* carries on.  merge_pfr, which validates one_to_one, raises exactly when the
\* joined table or the table merged so far holds a duplicated key.
C3_MatchedDuplicateAborts ==
    lastSrc # <<>> =>
        IF engine = "merge_pfr"
        THEN status = "raised" <=>
                (HasDupKey(lastSrc, lastOn) \/ HasDupKey(merged, lastOn))
        ELSE status = "raised" <=> DupKeyMatchesBase

C3_Witness ==
    /\ engine = "etl"
    /\ DupKeyMatchesBase
    /\ status = "raised"
    /\ Len(merged) = Len(base) + 1

\* C4: whenever the merge returns a table, the set of (player, team, season)
\* keys of the output equals the set of keys of the base table.
C4_BasePopulation ==
    status = "returned" => ResultSeasonKeys = BaseSeasonKeys

C4_Witness ==
    /\ status = "returned"
    /\ base # <<>>
    /\ \E k \in DOMAIN lastSrc :
            KeyOf(lastSrc[k], lastOn) \notin KeysOf(base, lastOn)
    /\ \E k \in DOMAIN result : result[k].cols[1] # NULL

\* C28: a join step of extract_season_all or merge_all on the player and team
\* key (with the year, in merge_all) that does not raise leaves every row of
\* the merged table with the columns it had and adds the joined table's
\* column: the value of the joined row with that row's key, and a missing
\* value exactly when the joined table has no row with the key.
C28_JoinKeepsAndFills ==
    [][(status = "run" /\ status' = "run" /\ i' = i + 1 /\ lastOn' \in {EtlOn, MergeAllOn}) =>
          /\ Len(merged') = Len(merged)
          /\ \A k \in DOMAIN merged :
                LET hits == { s \in DOMAIN lastSrc' :
                                KeyOf(lastSrc'[s], lastOn') = KeyOf(merged[k], lastOn') }
                    cell == merged'[k].cols[Len(merged'[k].cols)]
                IN  /\ \A c \in DOMAIN merged[k] \ {"cols"} : merged'[k][c] = merged[k][c]
                    /\ Len(merged'[k].cols) = Len(merged[k].cols) + 1
                    /\ SubSeq(merged'[k].cols, 1, Len(merged[k].cols)) = merged[k].cols
                    /\ hits = {} <=> cell = NULL
                    /\ \A s \in hits : cell = lastSrc'[s].val]_vars

C28_Witness ==
    /\ engine = "etl"
    /\ status = "run"
    /\ i = 2
    /\ Len(merged) = 2
    /\ merged[1].cols[1] # NULL
    /\ merged[1].cols[2] = NULL
    /\ merged[2].cols[2] # NULL
    /\ KeyOf(merged[1], EtlOn) # KeyOf(merged[2], EtlOn)

(***************************************************************************)
(* notebooks/qbrank.py: combine PFR and salary cap data (two-pass merge)   *)
(***************************************************************************)
\* team_mascot: the entries of mascot_map the inputs use
team_mascot(team) ==
    LET mascot_map == (TeamNE :> <<"P", "a", "t", "r", "i", "o", "t", "s">>)
                      @@ (TeamTB :> <<"B", "u", "c", "c", "a", "n", "e", "e", "r", "s">>)
    IN  mascot_map[team]

\* x.split(" ")[1]
LastNameOf(player) == Split(player, " ")[2]

JSmith == <<"J", " ", "S", "m", "i", "t", "h">>
TSmith == <<"T", " ", "S", "m", "i", "t", "h">>
TBrown == <<"T", " ", "B", "r", "o", "w", "n">>

\* rows of pfr_df as clean_pfr_passing and merge_pfr leave them: last_name and
\* mascot are derived, metric is a column joined by merge_pfr
PfrRow(player, tm, season, metric) ==
    [player |-> player, tm |-> tm, season |-> season, metric |-> metric,
     last_name |-> LastNameOf(player), mascot |-> team_mascot(tm)]

\* rows of salary_cap_df as prep_cap_data leaves them
SalaryRow(player_name, team, season) ==
    [player_name |-> player_name, team |-> team, season |-> season,
     last_name |-> LastNameOf(player_name)]

\* base row k carries its position as the stand-in for its other columns
PfrTables ==
    LET PfrPool ==
            { PfrRow(JSmith, TeamNE, 2020, <<10>>),
              PfrRow(TBrown, TeamTB, 2020, NULL),
              PfrRow(TSmith, TeamNE, 2020, NULL),
              PfrRow(JSmith, TeamTB, 2020, NULL),
              PfrRow(JSmith, TeamNE, 2019, NULL) }
    IN  { [k \in DOMAIN t |-> t[k] @@ [id |-> k]] : t \in SeqsUpTo(PfrPool, MaxRows) }

\* salary row k carries the cap number k
SalaryTables ==
    LET SalaryPool ==
            { SalaryRow(JSmith, <<"P", "a", "t", "r", "i", "o", "t", "s">>, 2020),
              SalaryRow(JSmith, <<"P", "A", "T">>, 2020),
              SalaryRow(JSmith, <<"J", "e", "t", "s">>, 2020),
              SalaryRow(TSmith, <<"P", "a", "t", "r", "i", "o", "t", "s">>, 2020),
              SalaryRow(TBrown, <<"B", "u", "c", "c", "a", "n", "e", "e", "r", "s">>, 2020),
              SalaryRow(JSmith, <<"P", "a", "t", "r", "i", "o", "t", "s">>, 2019) }
    IN  { [k \in DOMAIN t |-> t[k] @@ [cap_number |-> <<k>>]] :
            t \in SeqsUpTo(SalaryPool, MaxRows) }

PartnersOf(l, right, left_on, right_on) ==
    SelectSeq(right, LAMBDA r : KeyOf(r, right_on) = KeyOf(l, left_on))

\* pd.merge(left, right, how='left', left_on=..., right_on=..., indicator=True):
\* one row per partner of a left row, or one row with the right table's
\* columns missing when it finds none
RECURSIVE IndicatorJoin(_, _, _, _)
IndicatorJoin(left, right, left_on, right_on) ==
    IF left = <<>> THEN <<>>
    ELSE LET l  == Head(left)
             ms == PartnersOf(l, right, left_on, right_on)
             NoSalary == [player_name |-> NULL, team |-> NULL, cap_number |-> NULL]
         IN  (IF ms = <<>>
              THEN << l @@ NoSalary @@ ("_merge" :> "left_only") >>
              ELSE [k \in 1..Len(ms) |-> l @@ ms[k] @@ ("_merge" :> "both")])
                \o IndicatorJoin(Tail(left), right, left_on, right_on)

\* df.groupby(['_merge']).size()
MergeCounts(t) ==
    [left_only |-> Cardinality({k \in DOMAIN t : t[k]["_merge"] = "left_only"}),
     both      |-> Cardinality({k \in DOMAIN t : t[k]["_merge"] = "both"})]

\* the key columns of the first attempt, of the filter and of the second attempt
FirstLeftOn  == <<"last_name", "mascot", "season">>
FirstRightOn == <<"last_name", "team", "season">>
SubsetOn     == <<"player", "season", "tm">>

\* the second attempt: the base rows not linked yet, on the relaxed key
SecondAttempt_PrimaryKey(left, right) ==
    IndicatorJoin(left, right, FirstLeftOn, FirstRightOn)

SecondAttempt(left, right) ==
    IndicatorJoin(left, right,
                  <<"player", "last_name", "season">>,
                  <<"player_name", "last_name", "season">>)

\* the two asserts that close the cell
VerifyOk_OnlyLeftOnly(check, check1) == check.left_only = 0

VerifyOk_NoAsserts(check, check1) == TRUE

VerifyOk(check, check1) ==
    /\ check.left_only = 0
    /\ check.both = check1.left_only + check1.both

\* lines 473-482: the first attempt, validated one_to_one, and its counts
TpFirstAttempt ==
    /\ tpc = "first" /\ tstatus = "run"
    /\ IF ~HasDupKey(pfr_df, FirstLeftOn) /\ ~HasDupKey(salary_cap_df, FirstRightOn)
       THEN /\ merged_df1' =
                  IndicatorJoin(pfr_df, salary_cap_df, FirstLeftOn, FirstRightOn)
            /\ merge_check_df1' = MergeCounts(merged_df1')
            /\ tpc' = "left_only"
            /\ UNCHANGED tstatus
       ELSE /\ tstatus' = "raised"
            /\ UNCHANGED <<merged_df1, merge_check_df1, tpc>>
    /\ UNCHANGED <<pfr_df, salary_cap_df, left_only, pfr_subset_df, merged_df2,
                   merged_df, merge_check_df>>
    /\ UNCHANGED <<mergeVars, otcVars, seasonVars, cleanVars>>

\* line 485: the keys of the base rows that did not link
TpLeftOnly ==
    /\ tpc = "left_only" /\ tstatus = "run"
    /\ left_only' =
          LET lo == SelectSeq(merged_df1, LAMBDA r : r["_merge"] = "left_only")
          IN  [k \in DOMAIN lo |->
                 [player |-> lo[k].player, season |-> lo[k].season, tm |-> lo[k].tm]]
    /\ tpc' = "subset"
    /\ UNCHANGED <<pfr_df, salary_cap_df, merged_df1, merge_check_df1,
                   pfr_subset_df, merged_df2, merged_df, merge_check_df, tstatus>>
    /\ UNCHANGED <<mergeVars, otcVars, seasonVars, cleanVars>>

\* lines 488-492: inner merge of pfr_df with those keys, validated one_to_one
TpSubset ==
    /\ tpc = "subset" /\ tstatus = "run"
    /\ IF ~HasDupKey(pfr_df, SubsetOn) /\ ~HasDupKey(left_only, SubsetOn)
       THEN /\ pfr_subset_df' =
                  SelectSeq(pfr_df,
                            LAMBDA r : KeyOf(r, SubsetOn) \in KeysOf(left_only, SubsetOn))
            /\ tpc' = "second"
            /\ UNCHANGED tstatus
       ELSE /\ tstatus' = "raised"
            /\ UNCHANGED <<pfr_subset_df, tpc>>
    /\ UNCHANGED <<pfr_df, salary_cap_df, merged_df1, merge_check_df1, left_only,
                   merged_df2, merged_df, merge_check_df>>
    /\ UNCHANGED <<mergeVars, otcVars, seasonVars, cleanVars>>

\* lines 495-500: the second attempt, not validated
TpSecondAttempt ==
    /\ tpc = "second" /\ tstatus = "run"
    /\ merged_df2' = SecondAttempt(pfr_subset_df, salary_cap_df)
    /\ tpc' = "concat"
    /\ UNCHANGED <<pfr_df, salary_cap_df, merged_df1, merge_check_df1, left_only,
                   pfr_subset_df, merged_df, merge_check_df, tstatus>>
    /\ UNCHANGED <<mergeVars, otcVars, seasonVars, cleanVars>>

\* lines 503-509: keep the linked rows of the first attempt, stack, count
TpConcat ==
    /\ tpc = "concat" /\ tstatus = "run"
    /\ merged_df1' = SelectSeq(merged_df1, LAMBDA r : r["_merge"] = "both")
    /\ merged_df' = merged_df1' \o merged_df2
    /\ merge_check_df' = MergeCounts(merged_df')
    /\ tpc' = "verify"
    /\ UNCHANGED <<pfr_df, salary_cap_df, merge_check_df1, left_only,
                   pfr_subset_df, merged_df2, tstatus>>
    /\ UNCHANGED <<mergeVars, otcVars, seasonVars, cleanVars>>

\* lines 512-513: the asserts
TpVerify ==
    /\ tpc = "verify" /\ tstatus = "run"
    /\ tstatus' = IF VerifyOk(merge_check_df, merge_check_df1) THEN "done" ELSE "raised"
    /\ UNCHANGED <<pfr_df, salary_cap_df, merged_df1, merge_check_df1, left_only,
                   pfr_subset_df, merged_df2, merged_df, merge_check_df, tpc>>
    /\ UNCHANGED <<mergeVars, otcVars, seasonVars, cleanVars>>

InitTwoPass ==
    /\ pfr_df \in PfrTables
    /\ salary_cap_df \in SalaryTables
    /\ merged_df1 = <<>>
    /\ merge_check_df1 = NoCounts
    /\ left_only = <<>>
    /\ pfr_subset_df = <<>>
    /\ merged_df2 = <<>>
    /\ merged_df = <<>>
    /\ merge_check_df = NoCounts
    /\ tpc = "first"
    /\ tstatus = "run"
    /\ MergeIdle
    /\ OtcIdle
    /\ SeasonsIdle
    /\ CleanIdle

NextTwoPass ==
    \/ TpFirstAttempt
    \/ TpLeftOnly
    \/ TpSubset
    \/ TpSecondAttempt
    \/ TpConcat
    \/ TpVerify

SpecTwoPass == InitTwoPass /\ [][NextTwoPass]_vars

(***************************************************************************)
(* Claims about the two-pass merge                                         *)
(***************************************************************************)
\* the rows of the stacked table that stem from base row b
RowsOfBase(b) == SelectSeq(merged_df, LAMBDA r : r.id = b.id)

\* the salary table has a row for b's player and season under another team label
DivergentPartner(b) ==
    \E k \in DOMAIN salary_cap_df :
        /\ salary_cap_df[k].player_name = b.player
        /\ salary_cap_df[k].season = b.season
        /\ salary_cap_df[k].team # b.mascot

\* b has no partner under the primary key and none under the relaxed key
NoPartner(b) ==
    /\ PartnersOf(b, salary_cap_df, FirstLeftOn, FirstRightOn) = <<>>
    /\ \A k \in DOMAIN salary_cap_df :
          ~(salary_cap_df[k].player_name = b.player
              /\ salary_cap_df[k].season = b.season)

\* C5: once both attempts are stacked, every base row for which the salary
\* table holds a row of the same player and season under a different team label
\* is in the output, linked, with the salary columns filled.
C5_FallbackRecovery ==
    tpc = "verify" =>
        \A k \in DOMAIN pfr_df :
            DivergentPartner(pfr_df[k]) =>
                /\ RowsOfBase(pfr_df[k]) # <<>>
                /\ \A j \in DOMAIN RowsOfBase(pfr_df[k]) :
                      /\ RowsOfBase(pfr_df[k])[j]["_merge"] = "both"
                      /\ RowsOfBase(pfr_df[k])[j].cap_number # NULL

C5_Witness ==
    /\ tpc = "verify"
    /\ \E k \in DOMAIN pfr_df :
          /\ DivergentPartner(pfr_df[k])
          /\ KeyOf(pfr_df[k], SubsetOn) \in KeysOf(left_only, SubsetOn)
          /\ Len(RowsOfBase(pfr_df[k])) = 1
          /\ RowsOfBase(pfr_df[k])[1].cap_number # NULL
          /\ RowsOfBase(pfr_df[k])[1].team # pfr_df[k].mascot

\* C6: when the two-pass merge passes its final verification, every base row is
\* in the output exactly once and the output has as many rows as the base
\* population; a run whose stacked table differs from that ends raised.
C6_EveryBaseRowOnce ==
    (tpc = "verify" /\ tstatus # "run") =>
        \/ tstatus = "raised"
        \/ /\ tstatus = "done"
           /\ Len(merged_df) = Len(pfr_df)
           /\ \A k \in DOMAIN pfr_df : Len(RowsOfBase(pfr_df[k])) = 1

C6_Witness ==
    /\ tpc = "verify"
    /\ tstatus = "raised"
    /\ merge_check_df.left_only = 0
    /\ Len(merged_df) > Len(pfr_df)
    /\ \E k \in DOMAIN pfr_df : Len(RowsOfBase(pfr_df[k])) = 2

\* C7 (as stated): a base row with no partner under the primary key and none
\* under the relaxed key is kept with the salary columns missing, and the merge
\* completes without error.
C7_UnmatchedRowKeptAndCompletes ==
    (tpc = "verify" /\ tstatus # "run") =>
        \A k \in DOMAIN pfr_df :
            NoPartner(pfr_df[k]) =>
                /\ tstatus = "done"
                /\ Len(RowsOfBase(pfr_df[k])) = 1
                /\ RowsOfBase(pfr_df[k])[1].cap_number = NULL

\* C7 (amended): such a row is kept in the stacked table exactly once, with the
\* salary columns missing and its own columns unchanged, but the final
\* verification then fails: the two-pass merge ends raised, never done.
C7_UnmatchedRowKeptThenAborts ==
    tpc = "verify" =>
        \A k \in DOMAIN pfr_df :
            NoPartner(pfr_df[k]) =>
                /\ Len(RowsOfBase(pfr_df[k])) = 1
                /\ RowsOfBase(pfr_df[k])[1].cap_number = NULL
                /\ RowsOfBase(pfr_df[k])[1]["_merge"] = "left_only"
                /\ RowsOfBase(pfr_df[k])[1].metric = pfr_df[k].metric
                /\ tstatus # "done"
                /\ (tstatus # "run" => tstatus = "raised")

\* the scenario: base JSmith/NE (metric 10) and TBrown/TB, salary JSmith/PAT
C7_Witness ==
    /\ pfr_df = << PfrRow(JSmith, TeamNE, 2020, <<10>>) @@ [id |-> 1],
                   PfrRow(TBrown, TeamTB, 2020, NULL) @@ [id |-> 2] >>
    /\ salary_cap_df = << SalaryRow(JSmith, <<"P", "A", "T">>, 2020) @@ [cap_number |-> <<1>>] >>
    /\ tpc = "verify"
    /\ tstatus = "raised"
    /\ Len(merged_df) = 2
    /\ merged_df[1].player = JSmith
    /\ merged_df[1].metric = <<10>>
    /\ merged_df[1].cap_number = <<1>>
    /\ merged_df[2].player = TBrown
    /\ merged_df[2].metric = NULL
    /\ merged_df[2].cap_number = NULL

(***************************************************************************)
(* qb_etl.fix_player_name and qb_etl.extract_season_otc                    *)
(***************************************************************************)
UpperChars ==
    { "A", "B", "C", "D", "E", "F", "G", "H", "I", "J", "K", "L", "M",
      "N", "O", "P", "Q", "R", "S", "T", "U", "V", "W", "X", "Y", "Z" }

LowerChars ==
    { "a", "b", "c", "d", "e", "f", "g", "h", "i", "j", "k", "l", "m",
      "n", "o", "p", "q", "r", "s", "t", "u", "v", "w", "x", "y", "z" }

Digits == << "0", "1", "2", "3", "4", "5", "6", "7", "8", "9" >>

\* str.isupper(): some cased character, and no lower-case one
IsUpper(s) ==
    /\ \E k \in DOMAIN s : s[k] \in UpperChars
    /\ \A k \in DOMAIN s : s[k] \notin LowerChars

\* re.sub("[...]", "", s) / s.replace(c, ""): s without the characters of cs
StripChars(s, cs) == SelectSeq(s, LAMBDA c : c \notin cs)

\* "".join(tokens)
RECURSIVE JoinTokens(_)
JoinTokens(tokens) ==
    IF tokens = <<>> THEN <<>> ELSE Head(tokens) \o JoinTokens(Tail(tokens))

\* the first token left as it is
FirstInitials_Whole(first) == first

\* the first token of a name as fix_player_name rewrites it
FirstInitials(first) ==
    IF FindChar(first, ".") # 0 \/ (Len(first) = 2 /\ IsUpper(first))
    THEN StripChars(first, {"."})
    ELSE <<first[1]>>

\* qb_etl.fix_player_name, for a name whose first token is not empty
fix_player_name(full_name) ==
    LET first_last == Split(full_name, " ")
    IN  JoinTokens(<<FirstInitials(first_last[1])>> \o Tail(first_last))

\* float(s) for a string of digits
RECURSIVE NumVal(_)
NumVal(s) ==
    IF s = <<>> THEN 0
    ELSE 10 * NumVal(SubSeq(s, 1, Len(s) - 1))
            + (CHOOSE d \in 0..9 : Digits[d + 1] = s[Len(s)])

IsNumeric(s) == s # <<>> /\ \A k \in DOMAIN s : \E d \in DOMAIN Digits : Digits[d] = s[k]

\* xwalks/team_name_xwalk.csv: mascot -> team, for the mascots of the inputs
team_name_xwalk ==
    << [mascot |-> <<"J", "e", "t", "s">>, team |-> <<"N", "Y", "J">>],
       [mascot |-> <<"R", "a", "m", "s">>, team |-> <<"L", "A", "R">>] >>

\* the team column after pd.merge(df, xwalk_df, how="left", left_on="Team",
\* right_on="mascot"); the crosswalk holds each mascot once
XwalkTeam(Team) ==
    IF \E k \in DOMAIN team_name_xwalk : team_name_xwalk[k].mascot = Team
    THEN (CHOOSE x \in { team_name_xwalk[k] : k \in DOMAIN team_name_xwalk } :
            x.mascot = Team).team
    ELSE NULL

\* the columns player, team, salary_cap_value of one downloaded row
OtcColumns(r) ==
    [player |-> fix_player_name(r.Player),
     team |-> XwalkTeam(r.Team),
     salary_cap_value |-> StripChars(r.SalaryCapValue, {"$", ","})]

\* .first() instead of .max(): the value of the group's first row
GroupMax_First(vals) == vals[1]

\* .max() over the cells of one group, in row order; the cells are text here
RECURSIVE GroupMaxFold(_)
GroupMaxFold(vals) ==
    IF Len(vals) = 1 THEN vals[1]
    ELSE LET m == GroupMaxFold(SubSeq(vals, 1, Len(vals) - 1))
         IN  IF StrLess(m, vals[Len(vals)]) THEN vals[Len(vals)] ELSE m

GroupMax(vals) == GroupMaxFold(vals)

\* the index of the first row of each group, groups with a missing key dropped
GroupHeads(t, on) ==
    SelectSeq([k \in DOMAIN t |-> k],
              LAMBDA k : /\ \A c \in DOMAIN on : t[k][on[c]] # NULL
                         /\ \A j \in 1..(k - 1) : KeyOf(t[j], on) # KeyOf(t[k], on))

\* df.groupby(["player", "team"], as_index=False)["salary_cap_value"].max()
GroupByMax(t) ==
    LET heads == GroupHeads(t, EtlOn)
        cells(k) == LET g == SelectSeq(t, LAMBDA r : KeyOf(r, EtlOn) = KeyOf(t[k], EtlOn))
                    IN  [j \in DOMAIN g |-> g[j].salary_cap_value]
    IN  SortValues([h \in DOMAIN heads |->
                      [player |-> t[heads[h]].player,
                       team |-> t[heads[h]].team,
                       salary_cap_value |-> GroupMax(cells(heads[h]))]],
                   EtlOn)

\* df.apply(pd.to_numeric, errors="ignore") on the salary column: numbers when
\* every cell parses, the column as it is otherwise
ToNumericSalary(t) ==
    IF \A k \in DOMAIN t : IsNumeric(t[k].salary_cap_value)
    THEN [k \in DOMAIN t |->
            [t[k] EXCEPT !.salary_cap_value = NumVal(t[k].salary_cap_value)]]
    ELSE t

\* extract_season_otc from the downloaded table on
CleanOtc(raw) == ToNumericSalary(GroupByMax([k \in DOMAIN raw |-> OtcColumns(raw[k])]))

\* the rows a downloaded page can hold: names that abbreviate alike, a mascot
\* the crosswalk does not know, cap values whose text and number order differ
OtcRawRows ==
    [Player : { <<"T", "o", "m", " ", "B", "o">>, <<"T", "i", "m", " ", "B", "o">>,
                <<"A", "J", " ", "M", "c">> },
     Team : { <<"J", "e", "t", "s">>, <<"R", "a", "m", "s">>, <<"X", "F", "L">> },
     SalaryCapValue : { <<"$", "9", "0", "0">>, <<"$", "1", ",", "0", "0", "0">>,
                        <<"$", "9", "5", "0">> }]

OtcRun1 ==
    /\ 1 \notin otc_done
    /\ otc_clean' = CleanOtc(otc_raw)
    /\ otc_done' = otc_done \cup {1}
    /\ UNCHANGED <<otc_raw, otc_raw2, otc_clean2>>
    /\ UNCHANGED <<mergeVars, twoPassVars, seasonVars, cleanVars>>

OtcRun2 ==
    /\ 2 \notin otc_done
    /\ otc_clean2' = CleanOtc(otc_raw2)
    /\ otc_done' = otc_done \cup {2}
    /\ UNCHANGED <<otc_raw, otc_raw2, otc_clean>>
    /\ UNCHANGED <<mergeVars, twoPassVars, seasonVars, cleanVars>>

InitOtc ==
    /\ otc_raw \in SeqsUpTo(OtcRawRows, MaxRows)
    \* the same rows in another order
    /\ otc_raw2 \in { t \in [DOMAIN otc_raw -> { otc_raw[k] : k \in DOMAIN otc_raw }] :
                         \E f \in [DOMAIN otc_raw -> DOMAIN otc_raw] :
                             /\ \A x, y \in DOMAIN otc_raw : x # y => f[x] # f[y]
                             /\ \A x \in DOMAIN otc_raw : t[x] = otc_raw[f[x]] }
    /\ otc_clean = <<>>
    /\ otc_clean2 = <<>>
    /\ otc_done = {}
    /\ MergeIdle
    /\ TwoPassIdle
    /\ SeasonsIdle
    /\ CleanIdle

NextOtc ==
    \/ OtcRun1
    \/ OtcRun2

SpecOtc == InitOtc /\ [][NextOtc]_vars

(***************************************************************************)
(* The cleaning helpers, one call at a time: fix_player_name               *)
(***************************************************************************)
\* what a call gives back: a value, or an exception
Returned(v) == [ok |-> TRUE, value |-> v]
Raises == [ok |-> FALSE, value |-> <<>>]

\* qb_etl.fix_player_name: first_last[0][0] raises IndexError on an empty
\* first token
FixPlayerNameEtl(full_name) ==
    LET first == Split(full_name, " ")[1]
    IN  IF FindChar(first, ".") = 0 /\ ~(Len(first) = 2 /\ IsUpper(first)) /\ first = <<>>
        THEN Raises
        ELSE Returned(fix_player_name(full_name))

\* preprocess.fix_player_name: the first token is always cut to its first
\* character
FixPlayerNamePre(full_name) ==
    LET first_last == Split(full_name, " ")
    IN  IF first_last[1] = <<>>
        THEN Raises
        ELSE Returned(JoinTokens(<< <<first_last[1][1]>> >> \o Tail(first_last)))

FixPlayerName(v, full_name) ==
    IF v = "qb_etl" THEN FixPlayerNameEtl(full_name) ELSE FixPlayerNamePre(full_name)

\* the names the calls are made with
GivenNames ==
    { <<"T", "o", "m">>, <<"T">>, <<"A", "J">>, <<"A", ".", "J", ".">>,
      <<"A", "j">>, <<"a", "j">>, <<"T", ".">>, <<"J", "o">> }

FamilyNames == { <<"B", "o">>, <<"M", "c">>, <<"X">> }

TwoTokenNames == { g \o <<" ">> \o f : g \in GivenNames, f \in FamilyNames }

\* names of one token, the empty name, of two tokens and of three
PlayerNames ==
    GivenNames \cup FamilyNames \cup { <<>> }
        \cup TwoTokenNames
        \cup { n \o <<" ">> \o <<"J", "r">> : n \in TwoTokenNames }

CallFixPlayerName ==
    /\ fn = "fix_player_name" /\ fstatus = "call"
    /\ LET r == FixPlayerName(variant, arg)
       IN  /\ ret' = r.value
           /\ fstatus' = IF r.ok THEN "returned" ELSE "raised"
    /\ UNCHANGED <<fn, variant, arg, ret2, fstatus2>>
    /\ UNCHANGED <<mergeVars, twoPassVars, otcVars, seasonVars>>

\* the function applied to its own result
CallFixPlayerNameAgain ==
    /\ fn = "fix_player_name" /\ fstatus = "returned" /\ fstatus2 = "none"
    /\ LET r == FixPlayerName(variant, ret)
       IN  /\ ret2' = r.value
           /\ fstatus2' = IF r.ok THEN "returned" ELSE "raised"
    /\ UNCHANGED <<fn, variant, arg, ret, fstatus>>
    /\ UNCHANGED <<mergeVars, twoPassVars, otcVars, seasonVars>>

\* notebooks/qbrank.py, clean_pfr_passing and clean_otc: x.split(" ")[1], which
\* raises IndexError when there is no second token
CallLastName ==
    /\ fn = "last_name" /\ fstatus = "call"
    /\ IF Len(Split(arg, " ")) >= 2
       THEN ret' = LastNameOf(arg) /\ fstatus' = "returned"
       ELSE ret' = ret /\ fstatus' = "raised"
    /\ UNCHANGED <<fn, variant, arg, ret2, fstatus2>>
    /\ UNCHANGED <<mergeVars, twoPassVars, otcVars, seasonVars>>

(***************************************************************************)
(* The cleaning helpers: fix_team_name                                     *)
(***************************************************************************)
\* qb_etl.fix_team_name: the if / elif chain
FixTeamNameEtl(team_orig) ==
    IF team_orig = <<"S", "T", "L">> THEN <<"L", "A", "R">>
    ELSE IF team_orig = <<"S", "D", "G">> \/ team_orig = <<"S", "D">> THEN <<"L", "A", "C">>
    ELSE IF team_orig = <<"G", "N", "B">> THEN <<"G", "B">>
    ELSE IF team_orig = <<"T", "A", "M">> THEN <<"T", "B">>
    ELSE IF team_orig = <<"K", "A", "N">> THEN <<"K", "C">>
    ELSE IF team_orig = <<"N", "O", "R">> THEN <<"N", "O">>
    ELSE IF team_orig = <<"N", "W", "E">> THEN <<"N", "E">>
    ELSE IF team_orig = <<"S", "F", "O">> THEN <<"S", "F">>
    ELSE IF team_orig = <<"J", "A", "C">> THEN <<"J", "A", "X">>
    ELSE team_orig

\* preprocess.fix_team_name: STL and SDG only
FixTeamNamePre(team_orig) ==
    IF team_orig = <<"S", "T", "L">> THEN <<"L", "A", "R">>
    ELSE IF team_orig = <<"S", "D", "G">> THEN <<"L", "A", "C">>
    ELSE team_orig

\* notebooks/qbrank.py fix_team_name: team_fix_map, as (key, value) pairs
team_fix_map ==
    << <<<<"S", "T", "L">>, <<"L", "A", "R">>>>,
       <<<<"S", "D", "G">>, <<"L", "A", "C">>>>,
       <<<<"S", "D">>, <<"L", "A", "C">>>>,
       <<<<"G", "N", "B">>, <<"G", "B">>>>,
       <<<<"T", "A", "M">>, <<"T", "B">>>>,
       <<<<"K", "A", "N">>, <<"K", "C">>>>,
       <<<<"N", "O", "R">>, <<"N", "O">>>>,
       <<<<"N", "W", "E">>, <<"N", "E">>>>,
       <<<<"S", "F", "O">>, <<"S", "F">>>>,
       <<<<"J", "A", "C">>, <<"J", "A", "X">>>>,
       <<<<"O", "A", "K">>, <<"L", "V">>>>,
       <<<<"L", "V", "R">>, <<"L", "V">>>> >>

MapKeys(m) == { m[k][1] : k \in DOMAIN m }

MapGet(m, key) == (CHOOSE e \in { m[k] : k \in DOMAIN m } : e[1] = key)[2]

\* a lookup with no guard for a missing key
FixTeamNameNotebook_Strict(team_orig) ==
    IF team_orig \in MapKeys(team_fix_map)
    THEN Returned(MapGet(team_fix_map, team_orig))
    ELSE Raises

\* if team_orig in team_fix_map.keys(): team_fix_map[team_orig], else team_orig
FixTeamNameNotebook(team_orig) ==
    IF team_orig \in MapKeys(team_fix_map)
    THEN Returned(MapGet(team_fix_map, team_orig))
    ELSE Returned(team_orig)

FixTeamName(v, team_orig) ==
    CASE v = "qb_etl"     -> Returned(FixTeamNameEtl(team_orig))
      [] v = "preprocess" -> Returned(FixTeamNamePre(team_orig))
      [] OTHER            -> FixTeamNameNotebook(team_orig)

\* the labels the calls are made with: every key and value of the tables, and
\* labels the tables do not know
TeamLabels ==
    MapKeys(team_fix_map) \cup { team_fix_map[k][2] : k \in DOMAIN team_fix_map }
        \cup { <<"D", "A", "L">>, <<"2", "T", "M">>, <<"T", "m">>, <<>> }

CallFixTeamName ==
    /\ fn = "fix_team_name" /\ fstatus = "call"
    /\ LET r == FixTeamName(variant, arg)
       IN  /\ ret' = r.value
           /\ fstatus' = IF r.ok THEN "returned" ELSE "raised"
    /\ UNCHANGED <<fn, variant, arg, ret2, fstatus2>>
    /\ UNCHANGED <<mergeVars, twoPassVars, otcVars, seasonVars>>

(***************************************************************************)
(* The cleaning helpers: calc_qb_wins                                      *)
(* A returned win count is held as twice its value, so that the half win   *)
(* of a tie stays an integer.                                              *)
(***************************************************************************)
\* float(value) on the strings the calls are made with: decimal digits parse,
\* the empty string and letters raise ValueError
ParsesAsFloat(value) == IsNumeric(value)

\* ties counted as a whole win
WinsTwice_TieIsWin(W_L_T) == 2 * W_L_T[1] + 2 * W_L_T[3]

\* wins = W_L_T[0] + (W_L_T[2]*0.5), doubled
WinsTwice(W_L_T) == 2 * W_L_T[1] + W_L_T[3]

\* losses = W_L_T[1] + (W_L_T[2]*0.5), doubled
LossesTwice(W_L_T) == 2 * W_L_T[2] + W_L_T[3]

\* from the split on: ValueError when a component does not parse, IndexError
\* when there is no third component, AssertionError when the games are out of
\* range
WinsOfRecord(qb_record, max_games) ==
    LET parts == Split(qb_record, "-")
    IN  IF \E k \in DOMAIN parts : ~ParsesAsFloat(parts[k]) THEN Raises
        ELSE LET W_L_T == [k \in DOMAIN parts |-> NumVal(parts[k])]
             IN  IF Len(W_L_T) < 3 THEN Raises
                 ELSE IF 2 <= WinsTwice(W_L_T) + LossesTwice(W_L_T)
                            /\ WinsTwice(W_L_T) + LossesTwice(W_L_T) <= 2 * max_games
                      THEN Returned(WinsTwice(W_L_T))
                      ELSE Raises

\* qb_etl.calc_qb_wins and preprocess.calc_qb_wins: NaN has no split
\* (AttributeError); at most 16 games whatever the season
CalcQbWinsEtl(a) ==
    IF a.na THEN Raises ELSE WinsOfRecord(a.qb_record, 16)

\* notebooks/qbrank.py calc_qb_wins(starts, qb_record, season): NaN for no
\* starts or no record; 16 games through 2020, 17 after
CalcQbWinsNotebook(a) ==
    IF a.starts = 0 \/ a.na THEN Returned(NULL)
    ELSE WinsOfRecord(a.qb_record, IF a.season <= 2020 THEN 16 ELSE 17)

CalcQbWins(v, a) ==
    IF v = "notebook" THEN CalcQbWinsNotebook(a) ELSE CalcQbWinsEtl(a)

\* the text W-L-T, each number (below 100) written in decimal
RecordText(W, L, T) ==
    LET Dec(n) == IF n < 10 THEN <<Digits[n + 1]>>
                  ELSE <<Digits[(n \div 10) + 1], Digits[(n % 10) + 1]>>
    IN  Dec(W) \o <<"-">> \o Dec(L) \o <<"-">> \o Dec(T)

RecordWins   == {0, 1, 9, 12, 16, 17}
RecordLosses == {0, 3, 5}
RecordTies   == {0, 1}

\* the arguments of a call: records of three numbers, texts that are no such
\* record and a missing record, in a season of sixteen and one of seventeen
\* games
CalcArgs(v) ==
    LET QbRecords ==
            { RecordText(W, L, T) : W \in RecordWins, L \in RecordLosses, T \in RecordTies }
            \cup { <<>>, <<"9">>, <<"9", "-", "3">>, <<"9", "-", "3", "-", "0", "-", "1">>,
                   <<"x", "-", "3", "-", "0">>, <<"9", "-", "-", "0">>,
                   <<"9", "-", "3", "-", "0", "-", "0", "-", "0">> }
        RecordSeasons == {2020, 2021}
    IN  { [starts |-> st, na |-> FALSE, qb_record |-> r, season |-> yr] :
            st \in (IF v = "notebook" THEN {0, 12} ELSE {12}),
            r \in QbRecords, yr \in RecordSeasons }
        \cup { [starts |-> 12, na |-> TRUE, qb_record |-> <<>>, season |-> yr] :
                 yr \in RecordSeasons }

CallCalcQbWins ==
    /\ fn = "calc_qb_wins" /\ fstatus = "call"
    /\ LET r == CalcQbWins(variant, arg)
       IN  /\ ret' = r.value
           /\ fstatus' = IF r.ok THEN "returned" ELSE "raised"
    /\ UNCHANGED <<fn, variant, arg, ret2, fstatus2>>
    /\ UNCHANGED <<mergeVars, twoPassVars, otcVars, seasonVars>>

(***************************************************************************)
(* The cleaning helpers: percentage and currency columns                   *)
(* A cleaned cell is a record: its kind is "number", "missing" or "text"    *)
(* (left as it came), with the text it holds.                              *)
(***************************************************************************)
\* notebooks/qbrank.py clean_dollar_amt on every cell of the column: re.sub
\* on a missing cell and float() on what does not parse both end in np.nan
CleanAmountsNotebook(col) ==
    Returned([k \in DOMAIN col |->
                LET nan == [kind |-> "missing", text |-> <<>>]
                    s   == StripChars(col[k][1], {"$", ","})
                IN  IF col[k] = NULL THEN nan
                    ELSE IF ParsesAsFloat(s) THEN [kind |-> "number", text |-> s]
                    ELSE nan])

\* qb_etl.extract_season_otc and extract_season_fo: re.sub over the cells
\* (TypeError on a missing one), then pd.to_numeric(errors="ignore"), which
\* converts the column when every cell parses and hands it back as it is
\* otherwise
CleanAmountsEtl(col, symbols) ==
    IF \E k \in DOMAIN col : col[k] = NULL THEN Raises
    ELSE LET s == [k \in DOMAIN col |-> StripChars(col[k][1], symbols)]
         IN  Returned([k \in DOMAIN col |->
                         [kind |-> IF \A j \in DOMAIN s : ParsesAsFloat(s[j])
                                   THEN "number" ELSE "text",
                          text |-> s[k]]])

CleanAmounts(v, col) ==
    CASE v = "qb_etl_otc" -> CleanAmountsEtl(col, {"$", ","})
      [] v = "qb_etl_fo"  -> CleanAmountsEtl(col, {"%"})
      [] OTHER            -> CleanAmountsNotebook(col)

\* columns of one or two cells: amounts that parse once the symbols of the
\* source are gone, a dash, and a missing cell
AmountColumns(v) ==
    LET cells == { NULL, <<<<"-">>>>, <<<<"9", "5", "0">>>> }
                   \cup (IF v = "qb_etl_fo" THEN { <<<<"1", "2", "%">>>> }
                         ELSE { <<<<"$", "9", "0", "0">>>>,
                                <<<<"$", "1", ",", "0", "0", "0">>>> })
    IN  { <<c>> : c \in cells } \cup { <<c, d>> : c \in cells, d \in cells }

CallCleanAmounts ==
    /\ fn = "clean_amounts" /\ fstatus = "call"
    /\ LET r == CleanAmounts(variant, arg)
       IN  /\ ret' = r.value
           /\ fstatus' = IF r.ok THEN "returned" ELSE "raised"
    /\ UNCHANGED <<fn, variant, arg, ret2, fstatus2>>
    /\ UNCHANGED <<mergeVars, twoPassVars, otcVars, seasonVars>>

\* the helper, the file it is taken from and its argument
InitClean ==
    /\ \/ /\ fn = "fix_player_name"
          /\ variant \in {"qb_etl", "preprocess"}
          /\ arg \in PlayerNames
       \/ /\ fn = "last_name"
          /\ variant = "notebook"
          /\ arg \in PlayerNames
       \/ /\ fn = "fix_team_name"
          /\ variant \in {"qb_etl", "preprocess", "notebook"}
          /\ arg \in TeamLabels
       \/ /\ fn = "calc_qb_wins"
          /\ variant \in {"qb_etl", "preprocess", "notebook"}
          /\ arg \in CalcArgs(variant)
       \/ /\ fn = "clean_amounts"
          /\ variant \in {"qb_etl_otc", "qb_etl_fo", "notebook"}
          /\ arg \in AmountColumns(variant)
    /\ ret = <<>>
    /\ fstatus = "call"
    /\ ret2 = <<>>
    /\ fstatus2 = "none"
    /\ MergeIdle
    /\ TwoPassIdle
    /\ OtcIdle
    /\ SeasonsIdle

NextClean ==
    \/ CallFixPlayerName
    \/ CallFixPlayerNameAgain
    \/ CallLastName
    \/ CallFixTeamName
    \/ CallCalcQbWins
    \/ CallCleanAmounts

SpecClean == InitClean /\ [][NextClean]_vars

(***************************************************************************)
(* The multi-season drivers: qb_etl.get_all_seasons / main, and            *)
(* download.get_all_seasons                                                *)
(***************************************************************************)
\* range(bgn_yr, end_yr + 1), empty when end_yr < bgn_yr
YearRange(bgn_yr, end_yr) == [k \in 1..(end_yr - bgn_yr + 1) |-> bgn_yr + k - 1]

\* what pd.read_html gives for one page: a table, or an exception
Downloads(tables) ==
    { [ok |-> TRUE, table |-> t] : t \in tables } \cup { [ok |-> FALSE, table |-> <<>>] }

KeyANE == [player |-> PlayerA, team |-> TeamNE]
KeyBNE == [player |-> PlayerB, team |-> TeamNE]
KeyATB == [player |-> PlayerA, team |-> TeamTB]

\* rows of a season's Pro Football Reference page: a quarterback's row, with
\* the markers the page puts behind a name, an interior header row, and the
\* row of another position
PageRow(player, tm, pos, qbrec) ==
    [Player |-> player, Tm |-> tm, Pos |-> pos, QBrec |-> qbrec]

\* the pages one season can give: quarterbacks in and out of key order, two
\* quarterbacks of one team whose names abbreviate alike, header and punter
\* rows to drop, a record of seventeen games, a name with a punctuated suffix
SeasonPages ==
    LET QB        == <<"Q", "B">>
        NWE       == <<"N", "W", "E">>
        RowAl     == PageRow(<<"A", "l", " ", "X">>, NWE, QB, RecordText(9, 3, 0))
        RowAlStar == PageRow(<<"A", "l", " ", "X", "*", "+">>, NWE, QB, RecordText(9, 3, 0))
        RowAbe    == PageRow(<<"A", "b", "e", " ", "X">>, <<"N", "E">>, QB, RecordText(1, 3, 0))
        RowBo     == PageRow(<<"B", "o", " ", "X">>, NWE, QB, RecordText(3, 0, 1))
        RowAl17   == PageRow(<<"A", "l", " ", "X">>, NWE, QB, RecordText(12, 5, 0))
        RowHeader == PageRow(<<"P", "l", "a", "y", "e", "r">>, <<"T", "m">>,
                             <<"P", "o", "s">>, <<"Q", "B", "r", "e", "c">>)
        RowPunter == PageRow(<<"C", "y", " ", "X">>, NWE, <<"P">>, <<>>)
        RowAlJr   == PageRow(<<"A", "l", " ", "X", " ", "J", "r", ".", "*">>, NWE, QB,
                             RecordText(9, 3, 0))
    IN  { <<>>,
          <<RowAl>>,
          <<RowAl, RowBo>>,
          <<RowBo, RowAl>>,
          <<RowAl, RowAbe>>,
          <<RowHeader, RowAlStar, RowPunter>>,
          <<RowAl17>>,
          <<RowAlJr>> }

Raised == [ok |-> FALSE, table |-> <<>>]

\* extract_season_pfr, from the downloaded page on: the header rows and the
\* other positions dropped, then team, qb_wins, the name without its markers
\* and the player key, row by row; an exception of a helper ends the call
ExtractSeasonPfr(page) ==
    LET df    == SelectSeq(page, LAMBDA r : r.Tm # <<"T", "m">> /\ r.Pos = <<"Q", "B">>)
        wins  == [k \in DOMAIN df |->
                     CalcQbWinsEtl([na |-> FALSE, qb_record |-> df[k].QBrec])]
        full  == [k \in DOMAIN df |-> StripChars(df[k].Player, {"*", "+"})]
        names == [k \in DOMAIN df |-> FixPlayerNameEtl(full[k])]
    IN  IF \E k \in DOMAIN df : ~wins[k].ok \/ ~names[k].ok THEN Raised
        ELSE [ok |-> TRUE,
              table |-> BaseTable([k \in DOMAIN df |->
                           [player |-> names[k].value,
                            player_full_name |-> full[k],
                            team |-> FixTeamNameEtl(df[k].Tm),
                            qb_wins |-> wins[k].value]])]

\* the cleaned tables of the other sources
SeasonFo  == { SrcTable(<<KeyANE>>), SrcTable(<<KeyATB, KeyBNE>>),
               SrcTable(<<KeyANE, KeyANE>>) }
SeasonOtc == { SrcTable(<<>>), SrcTable(<<KeyANE, KeyBNE>>) }
SeasonEsf == { SrcTable(<<[player |-> PlayerB], [player |-> PlayerB]>>),
               SrcTable(<<[player |-> PlayerA]>>) }

\* extract_season_all(yr): the three downloads, the three joins each followed
\* by its row-count assert, the year column
ExtractSeasonAll(pfr, fo, otc, esf_df, yr) ==
    IF ~pfr.ok \/ ~fo.ok \/ ~otc.ok THEN Raised
    ELSE LET m1 == LeftJoin(pfr.table, fo.table, EtlOn)
             m2 == LeftJoin(m1, otc.table, EtlOn)
             m3 == LeftJoin(m2, esf_df, EsfOn)
         IN  IF ~RowCountUnchanged(Len(pfr.table), Len(m1)) THEN Raised
             ELSE IF ~RowCountUnchanged(Len(m1), Len(m2)) THEN Raised
             ELSE IF ~RowCountUnchanged(Len(m2), Len(m3)) THEN Raised
             ELSE [ok |-> TRUE,
                   table |-> [k \in DOMAIN m3 |-> m3[k] @@ [year |-> yr]]]

\* only the last table
Concat_LastOnly(tables) == IF tables = <<>> THEN <<>> ELSE tables[Len(tables)]

\* pd.concat(df_list, ignore_index=True)
RECURSIVE Concat(_)
Concat(tables) ==
    IF tables = <<>> THEN <<>> ELSE Head(tables) \o Concat(Tail(tables))

\* the calls of download_season one extract_season_all(yr) makes, in order: the
\* Pro Football Reference page, then, when the call before returned, the
\* Football Outsiders and the Over The Cap page
SeasonFetches(page, pfr, fo, otc, yr) ==
    <<[source |-> "pfr", year |-> yr, ok |-> page.ok]>>
        \o (IF ~pfr.ok THEN <<>>
            ELSE <<[source |-> "fo", year |-> yr, ok |-> fo.ok]>>
                    \o (IF ~fo.ok THEN <<>>
                        ELSE <<[source |-> "otc", year |-> yr, ok |-> otc.ok]>>))

\* the season's call is tried again
SeasonRaised_Retry == UNCHANGED <<sstatus, df_list, pfr_seen, yi>>

\* the season is left out and the next one is extracted
SeasonRaised_Skip ==
    /\ sstatus' = "run"
    /\ yi' = yi + 1
    /\ UNCHANGED <<df_list, pfr_seen>>

\* an exception of extract_season_all leaves the list comprehension and
\* get_all_seasons: no later season is extracted
SeasonRaised ==
    /\ sstatus' = "raised"
    /\ UNCHANGED <<df_list, pfr_seen, yi>>

\* qb_etl.get_all_seasons: one element of [extract_season_all(year) for year in ...]
EtlSeason ==
    /\ driver = "etl" /\ sstatus = "run" /\ yi <= Len(year_list)
    /\ \E page \in Downloads(SeasonPages), fo \in Downloads(SeasonFo),
          otc \in Downloads(SeasonOtc), esf_df \in SeasonEsf :
          LET pfr == IF page.ok THEN ExtractSeasonPfr(page.table) ELSE Raised
              r   == ExtractSeasonAll(pfr, fo, otc, esf_df, year_list[yi])
          IN  /\ fetched' = fetched \o SeasonFetches(page, pfr, fo, otc, year_list[yi])
              /\ IF r.ok
                 THEN /\ df_list' = Append(df_list, r.table)
                      /\ pfr_seen' = Append(pfr_seen, pfr.table)
                      /\ yi' = yi + 1
                      /\ sstatus' = "run"
                 ELSE SeasonRaised
    /\ UNCHANGED <<driver, year_list, seasons_df, db, csv>>
    /\ UNCHANGED <<mergeVars, twoPassVars, otcVars, cleanVars>>

\* the values of a table's yds_per_game column, for which a row's own columns
\* stand in the model
MetricOf(df) == [k \in DOMAIN df |-> df[k].id]

\* standardize_season: a column col_stdize = (col - mean) / std next to the
\* others, the mean and deviation taken over the season's rows; the quotient is
\* kept as the term it is computed from
StandardizeSeason(df) ==
    [k \in DOMAIN df |->
        df[k] @@ [stdize |-> [value |-> df[k].id, over |-> MetricOf(df)]]]

\* scale_for_display: a column col_scaled = col_stdize * std + mean, the mean and
\* deviation taken over all the rows
ScaleForDisplay(df) ==
    [k \in DOMAIN df |->
        df[k] @@ [scaled |-> [value |-> df[k].stdize, over |-> MetricOf(df)]]]

\* df[[...]]: the columns get_all_seasons returns; the _stdize columns are not
\* among them
ReorderColumns(df) ==
    [k \in DOMAIN df |-> [c \in DOMAIN df[k] \ {"stdize"} |-> df[k][c]]]

\* standardize each season, pd.concat (which raises on an empty list), rescale,
\* reorder the columns, return
EtlConcat ==
    /\ driver = "etl" /\ sstatus = "run" /\ yi > Len(year_list)
    /\ IF df_list = <<>>
       THEN sstatus' = "raised" /\ UNCHANGED seasons_df
       ELSE /\ sstatus' = "returned"
            /\ seasons_df' =
                  ReorderColumns(ScaleForDisplay(Concat(
                      [k \in DOMAIN df_list |-> StandardizeSeason(df_list[k])])))
    /\ UNCHANGED <<driver, year_list, yi, pfr_seen, df_list, db, csv, fetched>>
    /\ UNCHANGED <<mergeVars, twoPassVars, otcVars, cleanVars>>

\* load_seasons_to_db: df.to_sql(if_exists='append') appends every row, or raises
EtlLoad ==
    /\ driver = "etl" /\ sstatus = "returned"
    /\ \E written \in BOOLEAN :
          IF written
          THEN db' = db \o seasons_df /\ sstatus' = "loaded"
          ELSE sstatus' = "raised" /\ UNCHANGED db
    /\ UNCHANGED <<driver, year_list, yi, pfr_seen, df_list, seasons_df, csv, fetched>>
    /\ UNCHANGED <<mergeVars, twoPassVars, otcVars, cleanVars>>

\* download.get_season: the table, or None when read_html raised
DlGetSeason ==
    /\ driver = "download" /\ sstatus = "run" /\ yi <= Len(year_list)
    /\ \E got \in Downloads(SeasonPages) :
          /\ df_list' = Append(df_list, got)
          /\ fetched' = Append(fetched, [source |-> "pfr", year |-> year_list[yi], ok |-> got.ok])
    /\ yi' = yi + 1
    /\ UNCHANGED <<driver, year_list, pfr_seen, seasons_df, db, csv, sstatus>>
    /\ UNCHANGED <<mergeVars, twoPassVars, otcVars, cleanVars>>

\* df_fail = [check for check in df_list if check is None]; assert(len(df_fail) == 0)
AllDownloaded_NoCheck(list) == TRUE

AllDownloaded(list) == \A k \in DOMAIN list : list[k].ok

DlVerify ==
    /\ driver = "download" /\ sstatus = "run" /\ yi > Len(year_list)
    /\ IF AllDownloaded(df_list)
       THEN sstatus' = "export" /\ yi' = 1
       ELSE sstatus' = "raised" /\ UNCHANGED yi
    /\ UNCHANGED <<driver, year_list, pfr_seen, df_list, seasons_df, db, csv, fetched>>
    /\ UNCHANGED <<mergeVars, twoPassVars, otcVars, cleanVars>>

\* export_season(df_list[i], outfile.format(year=year_list[i])): to_csv writes
\* the file or raises FileNotFoundError
DlExport ==
    /\ driver = "download" /\ sstatus = "export" /\ yi <= Len(year_list)
    /\ \E written \in BOOLEAN :
          IF written
          THEN /\ csv' = Append(csv, [year |-> year_list[yi], table |-> df_list[yi].table])
               /\ yi' = yi + 1
               /\ sstatus' = "export"
          ELSE sstatus' = "raised" /\ UNCHANGED <<csv, yi>>
    /\ UNCHANGED <<driver, year_list, pfr_seen, df_list, seasons_df, db, fetched>>
    /\ UNCHANGED <<mergeVars, twoPassVars, otcVars, cleanVars>>

\* the loop over df_list is through
DlReturn ==
    /\ driver = "download" /\ sstatus = "export" /\ yi > Len(year_list)
    /\ sstatus' = "returned"
    /\ UNCHANGED <<driver, year_list, yi, pfr_seen, df_list, seasons_df, db, csv, fetched>>
    /\ UNCHANGED <<mergeVars, twoPassVars, otcVars, cleanVars>>

\* what extract_pfr_all(yr) and clean_pfr_all can give for a season: per page
\* the download's outcome and the cleaned table.  Complete pages, pages that
\* lack a quarterback of the passing page, a key twice on an advanced page and
\* on the rushing page, a failed download of an advanced and of the passing
\* page
SeasonDfs ==
    LET KeyA   == [player |-> PlayerA, tm |-> TeamNE]
        KeyB   == [player |-> PlayerA, tm |-> TeamTB]
        Got(t) == [ok |-> TRUE, table |-> t]
        Dfs(passing, rushing, air_yards, others) ==
            [key \in { PfrPages[p] : p \in DOMAIN PfrPages } |->
                CASE key = "passing" -> passing
                  [] key = "rushing" -> rushing
                  [] key = "air_yards" -> air_yards
                  [] OTHER -> others]
        Two    == Got(BaseTable(<<KeyA, KeyB>>))
        Full   == Got(SrcTable(<<KeyA, KeyB>>))
        OnlyA  == Got(SrcTable(<<KeyA>>))
        Twice  == Got(SrcTable(<<KeyA, KeyA>>))
    IN  { Dfs(Two, Full, Full, Full),
          Dfs(Two, OnlyA, OnlyA, Full),
          Dfs(Got(BaseTable(<<KeyA>>)), OnlyA, Twice, OnlyA),
          Dfs(Two, Twice, Full, Full),
          Dfs(Two, Full, Full, Raised),
          Dfs(Raised, Full, Full, Full) }

\* the keys of dfs whose table is not None, in the order of dfs.keys()
PresentPages(yr) == SelectSeq(PfrPages, LAMBDA key : PfrPresent(key, yr))

\* extract_pfr_all: the pages read, in order, up to the first that raises
RECURSIVE PagesRead(_, _, _)
PagesRead(dfs, keys, yr) ==
    IF keys = <<>> THEN <<>>
    ELSE <<[source |-> Head(keys), year |-> yr, ok |-> dfs[Head(keys)].ok]>>
            \o (IF dfs[Head(keys)].ok THEN PagesRead(dfs, Tail(keys), yr) ELSE <<>>)

\* merge_pfr: the first table, then a left join validated one_to_one with
\* each further table that is not None
RECURSIVE MergePfr(_, _, _)
MergePfr(merge_df, dfs, keys) ==
    IF keys = <<>> THEN [ok |-> TRUE, table |-> merge_df]
    ELSE IF ~OneToOne(merge_df, dfs[Head(keys)].table, PfrOn) THEN Raised
    ELSE MergePfr(LeftJoin(merge_df, dfs[Head(keys)].table, PfrOn), dfs, Tail(keys))

\* prep_pfr_season(yr): extract, clean, merge, the season column.  The joined
\* columns carry the name of their page
PrepPfrSeason(dfs, yr) ==
    LET keys == PresentPages(yr)
        m    == MergePfr(dfs[keys[1]].table, dfs, Tail(keys))
    IN  IF \E p \in DOMAIN keys : ~dfs[keys[p]].ok THEN Raised
        ELSE IF ~m.ok THEN Raised
        ELSE [ok |-> TRUE,
              table |-> [k \in DOMAIN m.table |->
                  [c \in {"player", "tm", "id", "season"} \cup { keys[p] : p \in 2..Len(keys) } |->
                      CASE c = "season" -> yr
                        [] c \in {"player", "tm", "id"} -> m.table[k][c]
                        [] OTHER -> m.table[k].cols[(CHOOSE p \in 2..Len(keys) : keys[p] = c) - 1]]]]

\* pd.concat(frames, ignore_index=True): the rows one after the other under
\* the union of the frames' columns, NaN in the cells of a column a frame lacks
ConcatAligned(frames) ==
    LET rows    == Concat(frames)
        columns == UNION { DOMAIN rows[k] : k \in DOMAIN rows }
    IN  [k \in DOMAIN rows |->
            [c \in columns |-> IF c \in DOMAIN rows[k] THEN rows[k][c] ELSE NULL]]

\* prep_pfr_all: one element of [prep_pfr_season(yr) for yr in yr_range]
NbSeason ==
    /\ driver = "notebook" /\ sstatus = "run" /\ yi <= Len(year_list)
    /\ \E dfs \in SeasonDfs :
          LET r == PrepPfrSeason(dfs, year_list[yi])
          IN  /\ fetched' = fetched \o PagesRead(dfs, PresentPages(year_list[yi]), year_list[yi])
              /\ pfr_seen' = Append(pfr_seen, dfs)
              /\ IF r.ok
                 THEN /\ df_list' = Append(df_list, r.table)
                      /\ yi' = yi + 1
                      /\ sstatus' = "run"
                 ELSE /\ sstatus' = "raised"
                      /\ UNCHANGED <<df_list, yi>>
    /\ UNCHANGED <<driver, year_list, seasons_df, db, csv>>
    /\ UNCHANGED <<mergeVars, twoPassVars, otcVars, cleanVars>>

\* prep_pfr_all: pd.concat of the seasons, which raises on an empty list
NbConcat ==
    /\ driver = "notebook" /\ sstatus = "run" /\ yi > Len(year_list)
    /\ IF df_list = <<>>
       THEN sstatus' = "raised" /\ UNCHANGED seasons_df
       ELSE sstatus' = "returned" /\ seasons_df' = ConcatAligned(df_list)
    /\ UNCHANGED <<driver, year_list, yi, pfr_seen, df_list, db, csv, fetched>>
    /\ UNCHANGED <<mergeVars, twoPassVars, otcVars, cleanVars>>

(***************************************************************************)
(* preprocess.main: the yearly files stacked per source, merged, sorted    *)
(***************************************************************************)
\* the cleaned tables of one season's three files, before the year column:
\* base rows in and out of key order and with a repeated key; joined tables
\* with and without a repeated key
SeasonFiles ==
    [pfr : { BaseTable(<<KeyANE>>), BaseTable(<<KeyBNE, KeyANE>>),
             BaseTable(<<KeyANE, KeyATB>>), BaseTable(<<KeyANE, KeyANE>>) },
     fo  : SeasonFo,
     otc : SeasonOtc]

\* glob.glob(file_pattern): the files of the pattern in an order the file
\* system chooses
GlobOrders(n) ==
    { o \in [1..n -> 1..n] : \A a, b \in 1..n : a # b => o[a] # o[b] }

\* clean_stack: each file cleaned under the year of its name, then pd.concat in
\* the order of the file list; pd.concat raises on an empty list
CleanStack(files, years, source, order) ==
    IF files = <<>> THEN Raised
    ELSE [ok |-> TRUE,
          table |-> Concat([k \in DOMAIN order |->
                      LET f == files[order[k]][source]
                      IN  [r \in DOMAIN f |-> f[r] @@ [year |-> years[order[k]]]]])]

\* main: the three stacks, merge_all with its row-count asserts and its sort,
\* then the left join with the elite-system-fraud file on player
PreprocessMain(files, years, orders, esf_df) ==
    LET pfr_clean_df == CleanStack(files, years, "pfr", orders[1])
        fo_clean_df  == CleanStack(files, years, "fo", orders[2])
        otc_clean_df == CleanStack(files, years, "otc", orders[3])
    IN  IF ~pfr_clean_df.ok \/ ~fo_clean_df.ok \/ ~otc_clean_df.ok THEN Raised
        ELSE LET m1 == LeftJoin(pfr_clean_df.table, fo_clean_df.table, MergeAllOn)
                 m2 == LeftJoin(m1, otc_clean_df.table, MergeAllOn)
             IN  IF ~RowCountUnchanged(Len(pfr_clean_df.table), Len(m1)) THEN Raised
                 ELSE IF ~RowCountUnchanged(Len(m1), Len(m2)) THEN Raised
                 ELSE [ok |-> TRUE,
                       table |-> LeftJoin(SortValues(m2, SortBy), esf_df, EsfOn)]

\* the files of one more season are in data/raw
PreSeasonFiles ==
    /\ driver = "preprocess" /\ sstatus = "run" /\ yi <= Len(year_list)
    /\ \E f \in SeasonFiles : pfr_seen' = Append(pfr_seen, f)
    /\ yi' = yi + 1
    /\ UNCHANGED <<driver, year_list, df_list, seasons_df, db, csv, fetched, sstatus>>
    /\ UNCHANGED <<mergeVars, twoPassVars, otcVars, cleanVars>>

\* one run of main over the files; df_list keeps the file orders the three
\* globs gave and the elite-system-fraud table
PreMain ==
    /\ driver = "preprocess" /\ sstatus = "run" /\ yi > Len(year_list)
    /\ \E o1, o2, o3 \in GlobOrders(Len(pfr_seen)), esf_df \in SeasonEsf :
          LET r == PreprocessMain(pfr_seen, year_list, <<o1, o2, o3>>, esf_df)
          IN  /\ df_list' = <<o1, o2, o3, esf_df>>
              /\ seasons_df' = r.table
              /\ sstatus' = IF r.ok THEN "returned" ELSE "raised"
    /\ UNCHANGED <<driver, year_list, yi, pfr_seen, db, csv, fetched>>
    /\ UNCHANGED <<mergeVars, twoPassVars, otcVars, cleanVars>>

InitSeasons ==
    /\ driver \in {"etl", "download", "notebook", "preprocess"}
    /\ \E bgn_yr, end_yr \in (IF driver = "notebook" THEN PfrYears ELSE Years) :
          year_list = YearRange(bgn_yr, end_yr)
    /\ yi = 1
    /\ pfr_seen = <<>>
    /\ df_list = <<>>
    /\ seasons_df = <<>>
    /\ db = <<>>
    /\ csv = <<>>
    /\ fetched = <<>>
    /\ sstatus = "run"
    /\ MergeIdle
    /\ TwoPassIdle
    /\ OtcIdle
    /\ CleanIdle

NextSeasons ==
    \/ EtlSeason
    \/ EtlConcat
    \/ EtlLoad
    \/ DlGetSeason
    \/ DlVerify
    \/ DlExport
    \/ DlReturn
    \/ NbSeason
    \/ NbConcat
    \/ PreSeasonFiles
    \/ PreMain

SpecSeasons == InitSeasons /\ [][NextSeasons]_vars

(***************************************************************************)
(* Claims about the multi-season drivers                                   *)
(***************************************************************************)
\* season k's table holds each row of that season's base table once, in order,
\* under the season's year
SeasonComplete(t, pfr, yr) ==
    /\ Len(t) = Len(pfr)
    /\ \A k \in DOMAIN t :
          /\ t[k].id = pfr[k].id
          /\ KeyOf(t[k], EtlOn) = KeyOf(pfr[k], EtlOn)
          /\ t[k].year = yr

\* a returned table without the column get_all_seasons computes itself
SourceColumns(t) ==
    [k \in DOMAIN t |-> [c \in DOMAIN t[k] \ {"scaled"} |-> t[k][c]]]

\* C8: every season the caller is handed, and every season that is persisted,
\* is complete: the frame get_all_seasons returns and the rows written to the
\* database are, season by season of the requested range, exactly the base
\* rows once each, and the files download.get_all_seasons writes are the
\* downloaded tables of a range in which no download failed; in every other
\* case the run ends with an exception and hands back nothing.
C8_CompleteOrException ==
    /\ (driver = "etl" /\ sstatus \in {"returned", "loaded"}) =>
          /\ Len(df_list) = Len(year_list)
          /\ \A k \in DOMAIN df_list :
                SeasonComplete(df_list[k], pfr_seen[k], year_list[k])
          /\ SourceColumns(seasons_df) = Concat(df_list)
    /\ (driver = "etl" /\ Len(df_list) < Len(year_list)) => seasons_df = <<>>
    /\ (driver = "etl" /\ sstatus # "loaded") => db = <<>>
    /\ (driver = "etl" /\ sstatus = "loaded") => db = seasons_df
    /\ (driver = "download" /\ csv # <<>>) =>
          /\ AllDownloaded(df_list)
          /\ Len(df_list) = Len(year_list)
          /\ \A k \in DOMAIN csv :
                csv[k] = [year |-> year_list[k], table |-> df_list[k].table]
    /\ (driver = "download" /\ sstatus = "returned") => Len(csv) = Len(year_list)

C8_Witness ==
    /\ driver = "etl"
    /\ sstatus = "loaded"
    /\ Len(year_list) = 2
    /\ Len(pfr_seen[1]) = 2
    /\ Len(pfr_seen[2]) = 1
    /\ Len(db) = 3
    /\ \E k \in DOMAIN db : db[k].cols[1] = NULL
    /\ \E k \in DOMAIN db : db[k].cols[1] # NULL

\* C11: the table get_all_seasons returns never holds two rows with the same
\* (player, team, year), whatever the pages of the seasons were, a page with
\* two rows of one player key and team included.
C11_NoDuplicateSeasonKey ==
    (driver = "etl" /\ sstatus \in {"returned", "loaded"}) =>
        ~HasDupKey(seasons_df, MergeAllOn)

\* C20: the table get_all_seasons returns is ordered by (player, year, team):
\* no row is followed by a smaller one.
C20_ReturnedInKeyOrder ==
    (driver = "etl" /\ sstatus \in {"returned", "loaded"}) =>
        IsSorted(seasons_df, SortBy)

\* C29: download.get_all_seasons writes no season file unless every download
\* of the range succeeded: with a failed download it raises before the first
\* export, and a run that returns has written one file per season, file k
\* named for year k of the range and holding the table downloaded for it.
C29_ExportOnlyAfterAllDownloads ==
    driver = "download" =>
        /\ (\E k \in DOMAIN df_list : ~df_list[k].ok) =>
              csv = <<>> /\ sstatus \in {"run", "raised"}
        /\ csv # <<>> => Len(df_list) = Len(year_list)
        /\ \A k \in DOMAIN csv :
              csv[k].year = year_list[k] /\ csv[k].table = df_list[k].table
        /\ sstatus = "returned" => Len(csv) = Len(year_list)

C29_Witness ==
    /\ driver = "download"
    /\ sstatus = "returned"
    /\ Len(csv) = 2
    /\ csv[1].table # csv[2].table
    /\ csv[2].table # <<>>

\* C30: qb_etl.main loads rows into qb_season only after every season of the
\* range was extracted and merged: the database changes in one step only, from
\* a returned table of all the seasons, and a run in which a season raised
\* never reaches the load and leaves the database without a row.
C30_LoadOnlyAfterAllSeasons ==
    [][driver = "etl" =>
          /\ db' # db =>
                /\ sstatus = "returned"
                /\ Len(df_list) = Len(year_list)
                /\ db' = db \o seasons_df
                /\ Len(seasons_df) = Len(Concat(df_list))
          /\ Len(df_list) < Len(year_list) =>
                db' = <<>> /\ sstatus' \in {"run", "raised"}]_vars

C30_Witness ==
    /\ driver = "etl"
    /\ sstatus = "loaded"
    /\ Len(year_list) = 2
    /\ Len(db) = Len(df_list[1]) + Len(df_list[2])
    /\ df_list[1] # <<>>
    /\ df_list[2] # <<>>

\* C27: nothing is retried.  No page of a source and season is downloaded
\* twice in a run, and no season is merged twice; in the ETL run a failed
\* download is the last one made, the season it belongs to gives no table, and
\* the run ends with the exception, returning and loading nothing, after which
\* it takes no further step.
C27_NoRetry ==
    /\ [](\A a, b \in DOMAIN fetched :
             (fetched[a].source = fetched[b].source /\ fetched[a].year = fetched[b].year)
                 => a = b)
    /\ [](driver = "etl" =>
             /\ Len(df_list) <= Len(year_list)
             /\ \A k \in DOMAIN df_list : \A j \in DOMAIN df_list[k] :
                    df_list[k][j].year = year_list[k]
             /\ \A k \in DOMAIN fetched :
                    ~fetched[k].ok =>
                        /\ k = Len(fetched)
                        /\ sstatus = "raised"
                        /\ fetched[k].year = year_list[Len(df_list) + 1]
             /\ (sstatus = "raised" /\ Len(df_list) < Len(year_list)) =>
                    seasons_df = <<>> /\ db = <<>>)
    /\ [][sstatus # "raised"]_vars

C27_Witness ==
    /\ driver = "etl"
    /\ sstatus = "raised"
    /\ Len(df_list) = 1
    /\ df_list[1] # <<>>
    /\ Len(fetched) = 5
    /\ fetched[5].source = "fo"
    /\ ~fetched[5].ok

\* the rows of the seasons before season k
RECURSIVE RowsBefore(_, _)
RowsBefore(tables, k) ==
    IF k <= 1 THEN 0 ELSE RowsBefore(tables, k - 1) + Len(tables[k - 1])

\* C21: get_all_seasons, and prep_pfr_all of the notebook, extract and merge
\* each season of the range exactly once and only put the seasons' tables one
\* after the other: row j of season k is row j of the output after the rows
\* of the seasons before it, with every column it had unchanged, and the
\* output has as many rows as the seasons' tables together.
C21_ConcatenationOnly ==
    (driver \in {"etl", "notebook"} /\ sstatus \in {"returned", "loaded"}) =>
        /\ Len(df_list) = Len(year_list)
        /\ \A k \in DOMAIN year_list :
              Cardinality({ a \in DOMAIN fetched :
                              /\ fetched[a].source \in {"pfr", "passing"}
                              /\ fetched[a].year = year_list[k] }) = 1
        /\ Len(seasons_df) = RowsBefore(df_list, Len(df_list) + 1)
        /\ \A k \in DOMAIN df_list : \A j \in DOMAIN df_list[k] :
              LET out == seasons_df[RowsBefore(df_list, k) + j]
              IN  /\ DOMAIN df_list[k][j] \subseteq DOMAIN out
                  /\ \A c \in DOMAIN df_list[k][j] : out[c] = df_list[k][j][c]

C21_Witness ==
    /\ driver = "etl"
    /\ sstatus = "returned"
    /\ Len(df_list) = 2
    /\ Len(df_list[1]) = 1
    /\ Len(df_list[2]) = 2
    /\ Len(seasons_df) = 3
    /\ seasons_df[3].scaled.over = <<1, 1, 2>>

\* the advanced passing pages and the first season the site has each of them
AdvancedPages == {"air_yards", "accuracy", "pressure", "play_type"}

FirstSeason(page) == IF page = "play_type" THEN 2019 ELSE 2018

\* C22: an advanced passing page is read and joined only from its first season
\* on (air_yards, accuracy, pressure 2018, play_type 2019).  A season before
\* that is merged without it and keeps every quarterback of its passing page:
\* when such a season raises, a page the season does have failed to download
\* or holds a key twice.  In the table prep_pfr_all returns, the page's column
\* is missing (never zero) on every row of a season before its first.
C22_AdvancedFromFirstSeason ==
    driver = "notebook" =>
        /\ \A a \in DOMAIN fetched :
              fetched[a].source \in AdvancedPages =>
                  fetched[a].year >= FirstSeason(fetched[a].source)
        /\ \A k \in DOMAIN df_list :
              /\ Len(df_list[k]) = Len(pfr_seen[k]["passing"].table)
              /\ \A j \in DOMAIN df_list[k] :
                    /\ df_list[k][j].id = j
                    /\ KeyOf(df_list[k][j], PfrOn) = KeyOf(pfr_seen[k]["passing"].table[j], PfrOn)
                    /\ \A page \in AdvancedPages :
                          year_list[k] < FirstSeason(page) => page \notin DOMAIN df_list[k][j]
        /\ Len(pfr_seen) > Len(df_list) =>
              \E page \in DOMAIN pfr_seen[Len(pfr_seen)] :
                  /\ page \in AdvancedPages => year_list[Len(pfr_seen)] >= FirstSeason(page)
                  /\ \/ ~pfr_seen[Len(pfr_seen)][page].ok
                     \/ HasDupKey(pfr_seen[Len(pfr_seen)][page].table, PfrOn)
        /\ sstatus = "returned" =>
              \A k \in DOMAIN seasons_df : \A page \in AdvancedPages :
                  (seasons_df[k].season < FirstSeason(page) /\ page \in DOMAIN seasons_df[k])
                      => seasons_df[k][page] = NULL

C22_Witness ==
    /\ driver = "notebook"
    /\ sstatus = "returned"
    /\ year_list = <<2017, 2018, 2019>>
    /\ Len(seasons_df) = 6
    /\ seasons_df[2].season = 2017
    /\ seasons_df[2]["rushing"] # NULL
    /\ seasons_df[2]["pressure"] = NULL
    /\ seasons_df[4].season = 2018
    /\ seasons_df[4]["pressure"] # NULL
    /\ seasons_df[4]["play_type"] = NULL
    /\ seasons_df[6]["play_type"] # NULL

\* C25: the award markers are taken off a name before the key is built and
\* the periods are taken out of the key, so no player key of a cleaned or
\* aggregated table holds '*', '+' or '.', whatever the name on the page was.
C25_KeyWithoutMarkersOrPeriods ==
    (driver = "etl" /\ sstatus \in {"returned", "loaded"}) =>
        \A k \in DOMAIN seasons_df :
            \A c \in DOMAIN seasons_df[k].player :
                seasons_df[k].player[c] \notin {"*", "+", "."}

\* the file order of a run that takes the seasons in the order of the years
YearOrder == [k \in DOMAIN year_list |-> k]

\* C26: the seasons are independent. The table preprocess.main builds is the
\* same whatever order the three file listings come in (and a run that raises
\* raises in every order), and its rows of one season are the rows a run over
\* that season's files alone gives; in qb_etl.get_all_seasons the rows of one
\* season are that season's own merge result.
C26_SeasonsIndependent ==
    /\ (driver = "preprocess" /\ sstatus \in {"returned", "raised"}) =>
          LET inYearOrder ==
                  PreprocessMain(pfr_seen, year_list,
                                 <<YearOrder, YearOrder, YearOrder>>, df_list[4])
          IN  /\ inYearOrder.ok = (sstatus = "returned")
              /\ seasons_df = inYearOrder.table
              /\ sstatus = "returned" =>
                    \A k \in DOMAIN year_list :
                        LET alone == PreprocessMain(<<pfr_seen[k]>>, <<year_list[k]>>,
                                                    <<<<1>>, <<1>>, <<1>>>>, df_list[4])
                        IN  /\ alone.ok
                            /\ SelectSeq(seasons_df,
                                         LAMBDA r : r.year = year_list[k]) = alone.table
    /\ (driver = "etl" /\ sstatus \in {"returned", "loaded"}) =>
          \A k \in DOMAIN year_list :
              SelectSeq(SourceColumns(seasons_df),
                        LAMBDA r : r.year = year_list[k]) = df_list[k]

C26_Witness ==
    /\ driver = "preprocess"
    /\ sstatus = "returned"
    /\ Len(year_list) = 2
    /\ df_list[1] = <<2, 1>>
    /\ df_list[2] = <<1, 2>>
    /\ Len(pfr_seen[1].pfr) = 2
    /\ pfr_seen[1] # pfr_seen[2]
    /\ \E a, b \in DOMAIN seasons_df :
          /\ seasons_df[a].year # seasons_df[b].year
          /\ seasons_df[a].cols[1] # NULL
          /\ seasons_df[b].cols[2] # NULL

(***************************************************************************)
(* Claims about the salary-source cleaner                                  *)
(***************************************************************************)
\* the cap values, as numbers, of the downloaded rows that map to a cleaned key
RawCapsOf(raw, row) ==
    { NumVal(OtcColumns(raw[k]).salary_cap_value) :
        k \in { j \in DOMAIN raw : KeyOf(OtcColumns(raw[j]), EtlOn) = KeyOf(row, EtlOn) } }

\* C9: the cleaned salary table has at most one row per (player, team), and
\* the row's salary_cap_value is the numerically largest cap value among the
\* downloaded rows that map to its key.
C9_NumericallyLargestCap ==
    1 \in otc_done =>
        /\ ~HasDupKey(otc_clean, EtlOn)
        /\ \A k \in DOMAIN otc_clean :
              /\ otc_clean[k].salary_cap_value \in RawCapsOf(otc_raw, otc_clean[k])
              /\ \A v \in RawCapsOf(otc_raw, otc_clean[k]) :
                    v <= otc_clean[k].salary_cap_value

\* C10: two runs of the cleaner on the same downloaded rows, in whatever order
\* the rows come, return the same table, so every duplicated key resolves to
\* the same single row.
C10_DeterministicResolution ==
    otc_done = {1, 2} =>
        /\ otc_clean = otc_clean2
        /\ ~HasDupKey(otc_clean, EtlOn)

C10_Witness ==
    /\ otc_done = {1, 2}
    /\ otc_raw2 # otc_raw
    /\ Len(otc_raw) = 2
    /\ KeyOf(OtcColumns(otc_raw[1]), EtlOn) = KeyOf(OtcColumns(otc_raw[2]), EtlOn)
    /\ otc_raw[1].SalaryCapValue # otc_raw[2].SalaryCapValue
    /\ Len(otc_clean) = 1
    /\ otc_clean2 = otc_clean

\* C24: a downloaded row whose team label has no entry in the crosswalk raises
\* no error and stays in the cleaned table, with a missing team; it is not
\* dropped.
C24_UnmappedTeamKept ==
    1 \in otc_done =>
        \A k \in DOMAIN otc_raw :
            XwalkTeam(otc_raw[k].Team) = NULL =>
                \E j \in DOMAIN otc_clean :
                    /\ otc_clean[j].player = fix_player_name(otc_raw[k].Player)
                    /\ otc_clean[j].team = NULL

(***************************************************************************)
(* Claims about fix_player_name                                            *)
(***************************************************************************)
Letters == UpperChars \cup LowerChars

\* two tokens, both non-empty, letters only (no period, no award marker)
WellFormedTwoToken(name) ==
    LET tokens == Split(name, " ")
    IN  /\ Len(tokens) = 2
        /\ \A t \in DOMAIN tokens :
              tokens[t] # <<>> /\ \A k \in DOMAIN tokens[t] : tokens[t][k] \in Letters

\* C12 (as stated): on a well-formed two-token name the function applied to its
\* own result returns that result again.
C12_Idempotent ==
    (fn = "fix_player_name" /\ fstatus2 \in {"returned", "raised"}
        /\ WellFormedTwoToken(arg)) =>
            fstatus2 = "returned" /\ ret2 = ret

\* C12 (amended): on a well-formed two-token name the result is a one-token key;
\* the function applied to that key returns the key itself only in qb_etl and
\* only when the key is exactly two upper-case letters, and the key's first
\* character in every other case.
C12_SecondCallCutsKey ==
    (fn = "fix_player_name" /\ fstatus2 \in {"returned", "raised"}
        /\ WellFormedTwoToken(arg)) =>
            /\ fstatus2 = "returned"
            /\ Len(Split(ret, " ")) = 1
            /\ ret2 = IF variant = "qb_etl" /\ Len(ret) = 2 /\ IsUpper(ret)
                      THEN ret
                      ELSE <<ret[1]>>
            /\ (ret2 = ret) <=> (variant = "qb_etl" /\ Len(ret) = 2 /\ IsUpper(ret))

C12_Witness ==
    /\ fn = "fix_player_name"
    /\ variant = "qb_etl"
    /\ arg = <<"T", "o", "m", " ", "B", "o">>
    /\ ret = <<"T", "B", "o">>
    /\ fstatus2 = "returned"
    /\ ret2 = <<"T">>

\* the key as C13 describes it
ClaimedKey(name) ==
    LET tokens == Split(name, " ")
        given == tokens[1]
    IN  (IF FindChar(given, ".") # 0
            \/ (Len(given) = 2 /\ \A k \in DOMAIN given : given[k] \in UpperChars)
         THEN StripChars(given, {"."})
         ELSE <<given[1]>>)
        \o JoinTokens(Tail(tokens))

\* C13: for every name of two or more tokens the call returns the key built
\* from the given name's initials (kept, periods removed, when the given name
\* holds a period or is two upper-case letters; its first character otherwise)
\* followed by every family-name token, with no delimiter.
C13_KeyConstruction ==
    (fn = "fix_player_name" /\ fstatus # "call" /\ Len(Split(arg, " ")) >= 2) =>
        fstatus = "returned" /\ ret = ClaimedKey(arg)

\* C14: a call with a well-formed two-token name returns, and a call with
\* fewer than two tokens (one token, or the empty string) raises and returns no
\* key.
C14_FewerThanTwoTokensRaises ==
    (fn = "fix_player_name" /\ fstatus # "call") =>
        /\ WellFormedTwoToken(arg) => fstatus = "returned"
        /\ Len(Split(arg, " ")) < 2 => fstatus = "raised"

(***************************************************************************)
(* Claims about fix_team_name                                              *)
(***************************************************************************)
\* the current code of a label's franchise, by the most complete of the tables
CanonicalCode(label) ==
    IF label \in MapKeys(team_fix_map) THEN MapGet(team_fix_map, label) ELSE label

CanonicalCodes == { team_fix_map[k][2] : k \in DOMAIN team_fix_map }

\* C15: in every variant, a call returns what the same variant returns for any
\* other label of the same franchise (SDG and SD among them), and an already
\* canonical code (NE among them) comes back unchanged.
C15_AlternateLabelsAgree ==
    (fn = "fix_team_name" /\ fstatus = "returned") =>
        /\ \A other \in TeamLabels :
              CanonicalCode(other) = CanonicalCode(arg) =>
                  ret = FixTeamName(variant, other).value
        /\ arg \in CanonicalCodes => ret = arg

\* the remap table of each variant: the pairs its code maps
RemapTable(v) ==
    CASE v = "qb_etl"     -> SubSeq(team_fix_map, 1, Len(team_fix_map) - 2)
      [] v = "preprocess" -> SubSeq(team_fix_map, 1, 2)
      [] OTHER            -> team_fix_map

\* C16: a call never raises; a label that is no key of the variant's remap
\* table comes back unchanged, a key comes back as the table's value.
C16_TotalPassThrough ==
    (fn = "fix_team_name" /\ fstatus # "call") =>
        /\ fstatus = "returned"
        /\ ret = IF arg \in MapKeys(RemapTable(variant))
                 THEN MapGet(RemapTable(variant), arg)
                 ELSE arg

C16_Witness ==
    /\ fn = "fix_team_name"
    /\ variant = "notebook"
    /\ arg = <<"2", "T", "M">>
    /\ fstatus = "returned"
    /\ ret = <<"2", "T", "M">>

(***************************************************************************)
(* Claims about calc_qb_wins                                               *)
(***************************************************************************)
\* the call is made for a quarterback with starts and with the record W-L-T
IsRecordOf(a, W, L, T) ==
    a.starts > 0 /\ ~a.na /\ a.qb_record = RecordText(W, L, T)

\* C17: a record W-L-T is accepted exactly when 1 <= W + L + T <= 16 in a
\* season through 2020 and 1 <= W + L + T <= 17 in a later season; every other
\* total raises and no win count is returned.
C17_SeasonDependentRange ==
    (fn = "calc_qb_wins" /\ fstatus # "call") =>
        \A W \in RecordWins, L \in RecordLosses, T \in RecordTies :
            IsRecordOf(arg, W, L, T) =>
                /\ fstatus = "returned" <=>
                      (1 <= W + L + T
                         /\ W + L + T <= (IF arg.season <= 2020 THEN 16 ELSE 17))
                /\ fstatus = "raised" => ret = <<>>

\* C18: a record whose number of '-'-separated components is not three raises.
C18_ComponentCountChecked ==
    (fn = "calc_qb_wins" /\ fstatus # "call" /\ arg.starts > 0 /\ ~arg.na
        /\ Len(Split(arg.qb_record, "-")) # 3) =>
            fstatus = "raised"

\* C19: for every accepted record W-L-T the call returns W + T/2 (held doubled:
\* 2W + T), the games counted are W + L + T, and 9-3-0 gives 9.
C19_WinsPlusHalfTies ==
    (fn = "calc_qb_wins" /\ fstatus = "returned") =>
        /\ \A W \in RecordWins, L \in RecordLosses, T \in RecordTies :
              IsRecordOf(arg, W, L, T) =>
                  /\ ret = 2 * W + T
                  /\ 1 <= W + L + T
                  /\ W + L + T <= 17
        /\ IsRecordOf(arg, 9, 3, 0) => ret = 2 * 9

C19_Witness ==
    /\ fn = "calc_qb_wins"
    /\ variant = "qb_etl"
    /\ arg.qb_record = <<"9", "-", "3", "-", "1">>
    /\ fstatus = "returned"
    /\ ret = 19

(***************************************************************************)
(* Claims about the percentage and currency columns                        *)
(***************************************************************************)
\* a cell that is missing, or whose text is no number once the symbols that
\* any of the cleaners removes are gone
Unparseable(cell) ==
    cell = NULL \/ ~ParsesAsFloat(StripChars(cell[1], {"$", ",", "%"}))

\* C23: in every source cleaner, a percentage or currency cell that cannot be
\* read as a number, a missing cell included, comes out as a missing value:
\* the cleaner does not raise and does not leave the raw text in the column.
C23_UnparseableBecomesMissing ==
    (fn = "clean_amounts" /\ fstatus # "call") =>
        /\ fstatus = "returned"
        /\ \A k \in DOMAIN arg : Unparseable(arg[k]) => ret[k].kind = "missing"

====
